---- MODULE Spec2Model ----
(***************************************************************************)
(* A model of the retail analytics pipeline: the feedback page of the      *)
(* dashboard (submit, admin login, delete and renumber), the dashboard's   *)
(* read-only views, the aggregation stage's main block, and the            *)
(* analytical queries Q1 (Pareto) and Q2 (perishable growth) as operators  *)
(* over a small fact table.                                                *)
(*                                                                         *)
(* Numbers: unit_sales is DOUBLE in the lake; the model uses integers and  *)
(* exact rational comparison (cross-multiplication), so binary rounding    *)
(* error of the engine is not modelled.  A value ROUND(x, 2) is held as    *)
(* the integer 100 * ROUND(x, 2) (hundredths).                             *)
(***************************************************************************)
EXTENDS Integers, Sequences, FiniteSets, TLC

VARIABLES
    \* ---- gold database, feedback part (dashboard_gold.db) ----
    feedback,     \* rows of table feedback: [id, created_at, user_name, page, rating, comment]
    fb_seq,       \* sqlite_sequence.seq for 'feedback'; 0 when the row is absent
    now,          \* the database clock, datetime('now'), in seconds
    admin,        \* st.session_state["admin_logged_in"], per browser session
    last,         \* the last completed interaction of the feedback page (history)
    \* ---- dashboard views ----
    goldStatus,   \* per gold table: "absent", "empty" or "rows"
    cache,        \* st.cache_data of each load_q*: "none", "empty" or "rows"
    lastView,     \* outcome of the last view run (history)
    \* ---- aggregation stage (stage_e_analysis.py __main__) ----
    lake,         \* the lake tables that exist
    aggPc,        \* position in the main block
    gold,         \* names of the gold tables materialized by the run
    aggLog,       \* what the run printed: the error caught, if any
    \* ---- analytical queries ----
    train,        \* lake table train: sequence of fact rows
    q1,           \* gold.q1_pareto_analysis: sequence of rows, or <<>> before the query
    q2,           \* gold.q2_perishable_growth
    qDone,        \* the queries that have been executed
    \* ---- city-level queries Q3..Q6 ----
    transactions,     \* lake table transactions: set of [date, store_nbr, transactions]
    holidays_events,  \* lake table holidays_events: set of holiday rows
    q3,           \* gold.q3_top_products_city
    q4,           \* gold.q4_basket_size
    q5,           \* gold.q5_holiday_impact
    q6,           \* gold.q6_geo_cube
    \* ---- ingestion stage (CreateLake.py) ----
    date_in,      \* a value of a date column as text: a sequence of characters
    date_out,     \* the date the date expression makes of it, or NULL
    csv,          \* the input files that exist, each with its rows
    ducklake,     \* the lake: the tables that exist, each with its rows
    ingPc,        \* position in CreateLake.py's main block
    ingLog,       \* what the run printed
    created,      \* the tables created by the current run (history)
    runs,         \* the completed runs of the stage: the files and the lake each ended with
    \* ---- gold database, tables of the aggregation stage (dashboard_gold.db) ----
    goldDb,       \* the tables that exist, each with its column count and rows
    goldPc,       \* position in stage_e_analysis.py's main block
    goldLog,      \* the errors the run printed
    goldRuns,     \* the gold database as each completed run left it
    \* ---- dashboard sessions at the level of single statements ----
    sess,         \* per browser session: its position in the handler it is running
    serial,       \* the number of feedback submissions so far
    done,         \* the delete passes that have ended, as they ended (history)
    conns         \* the database connections that are open

vars == <<feedback, fb_seq, now, admin, last, goldStatus, cache, lastView,
          lake, aggPc, gold, aggLog, train, q1, q2, qDone,
          transactions, holidays_events, q3, q4, q5, q6,
          date_in, date_out, csv, ducklake, ingPc, ingLog, created, runs,
          goldDb, goldPc, goldLog, goldRuns, sess, serial, done, conns>>

fbVars   == <<feedback, fb_seq, now, admin, last>>
viewVars == <<goldStatus, cache, lastView>>
aggVars  == <<lake, aggPc, gold, aggLog>>
qVars    == <<train, q1, q2, qDone>>
cityVars == <<transactions, holidays_events, q3, q4, q5, q6>>
ingVars  == <<date_in, date_out, csv, ducklake, ingPc, ingLog, created, runs>>
goldVars == <<goldDb, goldPc, goldLog, goldRuns>>
dashVars == <<sess, serial, done, conns>>

notFbVars   == <<viewVars, aggVars, qVars, cityVars, ingVars, goldVars, dashVars>>
notViewVars == <<fbVars, aggVars, qVars, cityVars, ingVars, goldVars, dashVars>>
notAggVars  == <<fbVars, viewVars, qVars, cityVars, ingVars, goldVars, dashVars>>
notQVars    == <<fbVars, viewVars, aggVars, cityVars, ingVars, goldVars, dashVars>>
notCityVars == <<fbVars, viewVars, aggVars, ingVars, goldVars, dashVars>>
notIngVars  == <<fbVars, viewVars, aggVars, qVars, cityVars, goldVars, dashVars>>
notGoldVars == <<fbVars, viewVars, aggVars, ingVars, dashVars>>

-----------------------------------------------------------------------------
(* Generic helpers *)

RECURSIVE SumOver(_, _)
\* SQL SUM over a finite set S of rows, of the value val[r]
SumOver(S, val) ==
    IF S = {} THEN 0
    ELSE LET r == CHOOSE x \in S : TRUE
         IN  val[r] + SumOver(S \ {r}, val)

Abs(n) == IF n < 0 THEN 0 - n ELSE n

\* n / d rounded to the nearest integer, halves away from zero (SQL ROUND), d # 0
RoundDiv(n, d) ==
    LET q == (2 * Abs(n) + Abs(d)) \div (2 * Abs(d))
    IN  IF (n < 0) = (d < 0) THEN q ELSE 0 - q

Range(s) == {s[i] : i \in DOMAIN s}

RECURSIVE LexLess(_, _)
\* the tuple of integers a sorts before the tuple b (ORDER BY a[1], a[2], ...)
LexLess(a, b) ==
    /\ b # <<>>
    /\ \/ a = <<>>
       \/ a[1] < b[1]
       \/ a[1] = b[1] /\ LexLess(Tail(a), Tail(b))

RECURSIVE SortedSeqs(_, _)
\* the orders in which ORDER BY may return the rows S, key[r] being the tuple of
\* the sort keys of row r: rows with equal keys come in any order
SortedSeqs(S, key) ==
    IF S = {} THEN {<<>>}
    ELSE LET firsts == {r \in S : \A x \in S : ~LexLess(key[x], key[r])}
         IN  UNION {{<<r>> \o t : t \in SortedSeqs(S \ {r}, key)} : r \in firsts}

\* all orderings of the finite set S
Orderings(S) ==
    {s \in [1..Cardinality(S) -> S] : \A i, j \in 1..Cardinality(S) : i # j => s[i] # s[j]}

-----------------------------------------------------------------------------
(* Bounds of the feedback model *)

MaxRows == 3          \* feedback rows the table may hold
MaxTime == 2          \* last second of the clock
Sessions == {"s1", "s2"}
Names == {"ann"}
Pages == {"General"}
Ratings == {1, 5}
Comments == {"ok"}
Passwords == {"12345", "0000"}

admin_password == "12345"

NoOp == [op |-> "none", prev |-> "none", s |-> "s1", id |-> 0, pw |-> "",
         adminPre |-> FALSE, pre |-> {}]

Ids(rows) == {r.id : r \in rows}

MaxId(rows) == IF rows = {} THEN 0 ELSE CHOOSE m \in Ids(rows) : \A i \in Ids(rows) : i <= m

-----------------------------------------------------------------------------
(* The feedback table and the SQL statements the feedback page executes.    *)
(* A database value is [rows |-> set of rows, seq |-> sqlite_sequence.seq]. *)

\* INTEGER PRIMARY KEY AUTOINCREMENT: the next id is one more than the larger of
\* the recorded sequence value and the largest id present
NextId(db) == (IF db.seq > MaxId(db.rows) THEN db.seq ELSE MaxId(db.rows)) + 1

\* INSERT INTO feedback(created_at, user_name, page, rating, comment) VALUES (...)
SqlInsert(db, created_at, user_name, page, rating, comment) ==
    LET id == NextId(db)
    IN  [rows |-> db.rows \cup {[id |-> id, created_at |-> created_at,
                                 user_name |-> user_name, page |-> page,
                                 rating |-> rating, comment |-> comment]},
         seq  |-> id]

\* variant: DELETE FROM feedback WHERE id >= ?
SqlDeleteFromId(db, id) == [db EXCEPT !.rows = {r \in db.rows : r.id < id}]

\* DELETE FROM feedback WHERE id = ?
SqlDeleteById(db, id) == [db EXCEPT !.rows = {r \in db.rows : r.id # id}]

\* DELETE FROM feedback
SqlDeleteAll(db) == [db EXCEPT !.rows = {}]

\* variant: the sequence row is left in place
SqlResetSequenceKept(db) == db

\* DELETE FROM sqlite_sequence WHERE name='feedback'
SqlResetSequence(db) == [db EXCEPT !.seq = 0]

\* variant: ORDER BY created_at DESC
SelectByCreatedAtDesc(db) ==
    {s \in Orderings(db.rows) :
        \A i, j \in DOMAIN s : i < j => s[i].created_at >= s[j].created_at}

\* SELECT * FROM feedback ORDER BY created_at ASC: every order the engine may
\* return; rows with equal created_at come in an unspecified order
SelectByCreatedAt(db) ==
    {s \in Orderings(db.rows) :
        \A i, j \in DOMAIN s : i < j => s[i].created_at <= s[j].created_at}

RECURSIVE Reinsert(_, _, _)
\* for _, row in all_data.iterrows(): INSERT ... (row's values, id left to the engine)
Reinsert(db, all_data, i) ==
    IF i > Len(all_data) THEN db
    ELSE Reinsert(SqlInsert(db, all_data[i].created_at, all_data[i].user_name,
                            all_data[i].page, all_data[i].rating, all_data[i].comment),
                  all_data, i + 1)

\* the re-sequencing that follows the DELETE of the selected row
Renumber(db, all_data) ==
    IF all_data # <<>>
    THEN Reinsert(SqlResetSequence(SqlDeleteAll(db)), all_data, 1)
    ELSE SqlResetSequence(db)

Db == [rows |-> feedback, seq |-> fb_seq]

\* the clock of datetime('now') advances
Tick ==
    /\ now < MaxTime
    /\ now' = now + 1
    /\ UNCHANGED <<feedback, fb_seq, admin, last, notFbVars>>

\* "Submit" of the feedback form: one INSERT, created_at by default
Submit(s, user_name, page, rating, comment) ==
    /\ Cardinality(feedback) < MaxRows
    /\ LET db2 == SqlInsert(Db, now, user_name, page, rating, comment)
       IN  /\ feedback' = db2.rows
           /\ fb_seq' = db2.seq
           /\ last' = [op |-> "Submit", prev |-> last.op, s |-> s, id |-> db2.seq,
                       pw |-> "", adminPre |-> admin[s], pre |-> feedback]
    /\ UNCHANGED <<now, admin, notFbVars>>

\* "Login" in the admin area, shown while the session is not logged in
Login(s, password_input) ==
    /\ ~admin[s]
    /\ admin' = [admin EXCEPT ![s] = (password_input = admin_password)]
    /\ last' = [op |-> "Login", prev |-> last.op, s |-> s, id |-> 0,
                pw |-> password_input, adminPre |-> admin[s], pre |-> feedback]
    /\ UNCHANGED <<feedback, fb_seq, now, notFbVars>>

\* "Log Out", shown while the session is logged in
Logout(s) ==
    /\ admin[s]
    /\ admin' = [admin EXCEPT ![s] = FALSE]
    /\ last' = [op |-> "Logout", prev |-> last.op, s |-> s, id |-> 0,
                pw |-> "", adminPre |-> admin[s], pre |-> feedback]
    /\ UNCHANGED <<feedback, fb_seq, now, notFbVars>>

\* variant: the delete control is shown without the login check
DeleteOfferedToAll(s) == feedback # {}

\* whether the admin area offers the delete control to session s
DeleteOffered(s) == admin[s] /\ feedback # {}

\* "Delete Feedback #id": DELETE of the row, then the renumbering pass
Delete(s, delete_id) ==
    /\ DeleteOffered(s)
    /\ delete_id \in Ids(feedback)
    /\ LET db1 == SqlDeleteById(Db, delete_id)
       IN  \E all_data \in SelectByCreatedAt(db1) :
              LET db2 == Renumber(db1, all_data)
              IN  /\ feedback' = db2.rows
                  /\ fb_seq' = db2.seq
    /\ last' = [op |-> "Delete", prev |-> last.op, s |-> s, id |-> delete_id,
                pw |-> "", adminPre |-> admin[s], pre |-> feedback]
    /\ UNCHANGED <<now, admin, notFbVars>>

-----------------------------------------------------------------------------
(* Values the parts of the model hold while another part is explored *)

FeedbackIdle ==
    /\ feedback = {}
    /\ fb_seq = 0
    /\ now = 0
    /\ admin = [s \in Sessions |-> FALSE]
    /\ last = NoOp

ViewsIdle ==
    /\ goldStatus = <<>>
    /\ cache = <<>>
    /\ lastView = [page |-> "none", outcome |-> "none"]

AggIdle ==
    /\ lake = {}
    /\ aggPc = "idle"
    /\ gold = {}
    /\ aggLog = "none"

QueriesIdle ==
    /\ train = <<>>
    /\ q1 = <<>>
    /\ q2 = <<>>
    /\ qDone = {}

CityIdle ==
    /\ transactions = {}
    /\ holidays_events = {}
    /\ q3 = <<>>
    /\ q4 = <<>>
    /\ q5 = <<>>
    /\ q6 = <<>>

DashIdle ==
    /\ sess = <<>>
    /\ serial = 0
    /\ done = <<>>
    /\ conns = {}

GoldIdle ==
    /\ goldDb = <<>>
    /\ goldPc = "idle"
    /\ goldLog = <<>>
    /\ goldRuns = <<>>

IngestIdle ==
    /\ date_in = <<>>
    /\ date_out = [null |-> TRUE]
    /\ csv = <<>>
    /\ ducklake = <<>>
    /\ ingPc = "idle"
    /\ ingLog = <<>>
    /\ created = {}
    /\ runs = <<>>

-----------------------------------------------------------------------------
(* The feedback page: specification *)

\* ensure_feedback_table on an empty database; every session starts logged out
InitFeedback ==
    /\ FeedbackIdle
    /\ ViewsIdle /\ AggIdle /\ QueriesIdle /\ CityIdle /\ IngestIdle /\ GoldIdle /\ DashIdle

NextFeedback ==
    \/ Tick
    \/ \E s \in Sessions, u \in Names, p \in Pages, r \in Ratings, c \in Comments :
          Submit(s, u, p, r, c)
    \/ \E s \in Sessions, pw \in Passwords : Login(s, pw)
    \/ \E s \in Sessions : Logout(s)
    \/ \E s \in Sessions, d \in 1..MaxRows : Delete(s, d)

SpecFeedback == InitFeedback /\ [][NextFeedback]_vars

-----------------------------------------------------------------------------
(* Claims about the feedback page, checked under SpecFeedback *)

\* C1: after an admin deletion and its renumbering pass, the surviving rows
\* carry the ids 1..n-1 exactly, they keep created_at values of the rows that
\* were not deleted, and a survivor with an earlier created_at has the smaller id.
TheoremC1 ==
    last.op = "Delete" =>
        /\ Cardinality(feedback) = Cardinality(last.pre) - 1
        /\ Ids(feedback) = 1..(Cardinality(last.pre) - 1)
        /\ \A r \in feedback :
              \E o \in last.pre : o.id # last.id /\ o.created_at = r.created_at
        /\ \A r1, r2 \in feedback : r1.created_at < r2.created_at => r1.id < r2.id

\* a deletion of row 1 of three rows, the two survivors created at different times
WitnessC1 ==
    /\ last.op = "Delete"
    /\ last.id = 1
    /\ Cardinality(last.pre) = 3
    /\ \E r1, r2 \in feedback : r1.created_at < r2.created_at

\* C2: from an empty table, after any sequence of submissions and admin
\* deletions the ids are exactly 1..n, and a submission receives id n+1 for the
\* n rows present before it.
TheoremC2 ==
    /\ Ids(feedback) = 1..Cardinality(feedback)
    /\ last.op = "Submit" =>
          /\ last.id = Cardinality(last.pre) + 1
          /\ \E r \in feedback : r.id = last.id /\ r \notin last.pre

\* the first submission after the last remaining row was deleted receives id 1
WitnessC2 ==
    /\ last.op = "Submit"
    /\ last.prev = "Delete"
    /\ last.pre = {}
    /\ last.id = 1
    /\ Ids(feedback) = {1}

\* C5: admin_logged_in starts false; the table loses a row only by a Delete in
\* a session whose flag is true; the flag rises only by a Login with the admin
\* password; Log Out resets it; a Login with a wrong password leaves the flag
\* false and the feedback table unchanged.
TheoremC5 ==
    /\ \A s \in Sessions : ~admin[s]
    /\ [][ /\ Cardinality(feedback') < Cardinality(feedback) =>
                 /\ last'.op = "Delete"
                 /\ admin[last'.s]
           /\ \A s \in Sessions :
                 (~admin[s] /\ admin'[s]) =>
                     /\ last'.op = "Login"
                     /\ last'.s = s
                     /\ last'.pw = admin_password
           /\ (last' # last /\ last'.op = "Logout") => ~admin'[last'.s]
           /\ (last' # last /\ last'.op = "Login" /\ last'.pw # admin_password) =>
                 /\ ~admin'[last'.s]
                 /\ feedback' = feedback
                 /\ fb_seq' = fb_seq
         ]_vars

\* a deletion by a logged-in session while the other session is not logged in
WitnessC5 ==
    /\ last.op = "Delete"
    /\ last.adminPre
    /\ \E s \in Sessions : ~admin[s]
    /\ Cardinality(feedback) < Cardinality(last.pre)

-----------------------------------------------------------------------------
(* The dashboard's read-only views (page_q1_pareto .. page_q8_oil) *)

MaxBroken == 1        \* gold tables that are absent or empty when the dashboard starts

QTables == <<"q1_pareto_analysis", "q2_perishable_growth", "q3_top_products_city",
             "q4_basket_size_analysis", "q5_holiday_impact", "q6_geo_cube",
             "q7_sales_monthly_pivot", "q8_oil_sales">>

QTableSet == Range(QTables)

\* read_df("SELECT * FROM <t> ..."): pd.read_sql_query raises when the table does
\* not exist ("raise"), and returns the frame otherwise ("empty" or "rows")
read_df(t) == IF goldStatus[t] = "absent" THEN "raise" ELSE goldStatus[t]

\* load_q*: st.cache_data returns the memoized frame, or calls read_df and memoizes
\* what it returns; an exception is not memoized
load_q(t) == IF cache[t] # "none" THEN cache[t] ELSE read_df(t)

\* the view's guard: if df is None or df.empty: st.error(...); return
ViewOutcome(df) ==
    IF df = "raise" THEN "exception"
    ELSE IF df = "empty" THEN "error_notice"
    ELSE "rendered"

\* one run of the view of gold table t
PageView(t) ==
    /\ LET df == load_q(t)
       IN  /\ cache' = IF df = "raise" THEN cache ELSE [cache EXCEPT ![t] = df]
           /\ lastView' = [page |-> t, outcome |-> ViewOutcome(df)]
    /\ UNCHANGED <<goldStatus, notViewVars>>

\* the dashboard process starts with an empty cache on a gold database in which
\* at most MaxBroken of the eight tables are absent or empty
InitViews ==
    /\ goldStatus \in {g \in [QTableSet -> {"absent", "empty", "rows"}] :
                          Cardinality({t \in QTableSet : g[t] # "rows"}) <= MaxBroken}
    /\ cache = [t \in QTableSet |-> "none"]
    /\ lastView = [page |-> "none", outcome |-> "none"]
    /\ FeedbackIdle /\ AggIdle /\ QueriesIdle /\ CityIdle /\ IngestIdle /\ GoldIdle /\ DashIdle

NextViews == \E t \in QTableSet : PageView(t)

SpecViews == InitViews /\ [][NextViews]_vars

\* C4: when the gold table of a view is absent or present but empty, the view
\* renders an inline error notice and returns early, and raises no exception.
ClaimC4 ==
    \A t \in QTableSet :
        (lastView.page = t /\ goldStatus[t] \in {"absent", "empty"}) =>
            lastView.outcome = "error_notice"

-----------------------------------------------------------------------------
(* The aggregation stage: the main block of stage_e_analysis.py *)

LakeTables == {"train", "items", "stores", "transactions", "oil", "holidays_events"}

\* the calls of the try block, in order
AggSteps == QTables \o <<"save_raw_samples", "create_gold_inventory", "verify_and_catalog">>

\* the lake tables each query reads
Sources(step) ==
    CASE step = "q1_pareto_analysis"      -> {"train", "items"}
      [] step = "q2_perishable_growth"    -> {"train", "items", "stores"}
      [] step = "q3_top_products_city"    -> {"train", "stores", "items"}
      [] step = "q4_basket_size_analysis" -> {"train", "transactions", "stores"}
      [] step = "q5_holiday_impact"       -> {"train", "stores", "holidays_events"}
      [] step = "q6_geo_cube"             -> {"train", "stores"}
      [] step = "q7_sales_monthly_pivot"  -> {"train"}
      [] step = "q8_oil_sales"            -> {"train", "oil"}
      [] step = "save_raw_samples"        -> LakeTables
      [] OTHER                            -> {}

\* tables_to_sample, in the order of the loop
SampleOrder == <<"train", "items", "stores", "transactions", "oil", "holidays_events">>

SampleName(t) ==
    CASE t = "train" -> "sample_train" [] t = "items" -> "sample_items"
      [] t = "stores" -> "sample_stores" [] t = "transactions" -> "sample_transactions"
      [] t = "oil" -> "sample_oil" [] OTHER -> "sample_holidays_events"

\* the sample tables created before the loop meets a missing lake table
SamplesCreated ==
    {SampleName(SampleOrder[i]) : i \in {j \in 1..Len(SampleOrder) :
                                            \A k \in 1..j : SampleOrder[k] \in lake}}

StepIndex(step) == CHOOSE i \in 1..Len(AggSteps) : AggSteps[i] = step

AfterStep(step) ==
    IF StepIndex(step) = Len(AggSteps) THEN "finally" ELSE AggSteps[StepIndex(step) + 1]

\* con = init_duckdb_with_sqlite()
AggStart ==
    /\ aggPc = "init"
    /\ aggPc' = AggSteps[1]
    /\ UNCHANGED <<lake, gold, aggLog, notAggVars>>

\* the statement after a call that raised: the except clause of the main block
AfterRaise(step) == "except"

\* process_question_1 .. process_question_8_oil: CREATE OR REPLACE TABLE gold.<q>;
\* the engine raises when a source table is missing
RunQuery(step) ==
    /\ aggPc = step
    /\ step \in QTableSet
    /\ IF Sources(step) \subseteq lake
       THEN /\ gold' = gold \cup {step}
            /\ aggPc' = AfterStep(step)
            /\ aggLog' = aggLog
       ELSE /\ gold' = gold
            /\ aggPc' = AfterRaise(step)
            /\ aggLog' = step
    /\ UNCHANGED <<lake, notAggVars>>

\* save_raw_samples(con)
SaveRawSamples ==
    /\ aggPc = "save_raw_samples"
    /\ gold' = gold \cup SamplesCreated
    /\ IF LakeTables \subseteq lake
       THEN aggPc' = AfterStep(aggPc) /\ aggLog' = aggLog
       ELSE aggPc' = AfterRaise(aggPc) /\ aggLog' = aggPc
    /\ UNCHANGED <<lake, notAggVars>>

\* create_gold_inventory(con)
CreateGoldInventory ==
    /\ aggPc = "create_gold_inventory"
    /\ gold' = gold \cup {"gold_inventory"}
    /\ aggPc' = AfterStep(aggPc)
    /\ UNCHANGED <<lake, aggLog, notAggVars>>

\* verify_sqlite_tables_direct(); print_gold_catalog(con): read only
VerifyAndCatalog ==
    /\ aggPc = "verify_and_catalog"
    /\ aggPc' = AfterStep(aggPc)
    /\ UNCHANGED <<lake, gold, aggLog, notAggVars>>

\* except Exception as e: print(f"Error during execution: {e}")
Except ==
    /\ aggPc = "except"
    /\ aggPc' = "finally"
    /\ UNCHANGED <<lake, gold, aggLog, notAggVars>>

\* finally: con.close(); vacuum_sqlite_database(); print("Done.")
Finally ==
    /\ aggPc = "finally"
    /\ aggPc' = "done"
    /\ UNCHANGED <<lake, gold, aggLog, notAggVars>>

\* a run on an empty gold database; the lake holds any subset of its tables
InitAgg ==
    /\ lake \in SUBSET LakeTables
    /\ aggPc = "init"
    /\ gold = {}
    /\ aggLog = "none"
    /\ FeedbackIdle /\ ViewsIdle /\ QueriesIdle /\ CityIdle /\ IngestIdle /\ GoldIdle /\ DashIdle

NextAgg ==
    \/ AggStart
    \/ \E step \in QTableSet : RunQuery(step)
    \/ SaveRawSamples
    \/ CreateGoldInventory
    \/ VerifyAndCatalog
    \/ Except
    \/ Finally

SpecAgg == InitAgg /\ [][NextAgg]_vars

\* C3: a failure raised by one of the eight queries does not prevent the others
\* from running: when the run is over, every query whose source tables exist has
\* materialized its gold table, and the failure was caught and reported.
ClaimC3 ==
    aggPc = "done" =>
        /\ \A q \in QTableSet : Sources(q) \subseteq lake => q \in gold
        /\ (\E q \in QTableSet : ~(Sources(q) \subseteq lake)) => aggLog # "none"

-----------------------------------------------------------------------------
(* The lake tables the analytical queries read.                             *)
(* A fact row is [date, store_nbr, item_nbr, unit_sales]; train is the      *)
(* sequence of fact rows, in the order of train.csv (by date, store, item). *)
(* A SQL value that may be NULL is [null |-> BOOLEAN, v |-> Int].           *)

Null == [null |-> TRUE, v |-> 0]
Val(n) == [null |-> FALSE, v |-> n]

\* dimension table items: item_nbr -> family, perishable
ItemsTable ==
    (1 :> [family |-> "DAIRY", perishable |-> 1]) @@
    (2 :> [family |-> "GROCERY I", perishable |-> 0]) @@
    (3 :> [family |-> "PRODUCE", perishable |-> 1]) @@
    (4 :> [family |-> "BEVERAGES", perishable |-> 0]) @@
    (5 :> [family |-> "DAIRY", perishable |-> 1])

\* dimension table stores: store_nbr -> city, state
StoresTable ==
    (1 :> [city |-> "Quito", state |-> "Pichincha"]) @@
    (2 :> [city |-> "Guayaquil", state |-> "Guayas"]) @@
    (3 :> [city |-> "Cayambe", state |-> "Pichincha"]) @@
    (4 :> [city |-> "Quito", state |-> "Pichincha"])

Date(y, m, d) == [y |-> y, m |-> m, d |-> d]

\* EXTRACT(YEAR FROM date)
Year(date) == date.y

DateCode(date) == date.y * 10000 + date.m * 100 + date.d

\* the file order of fact rows: by date, then store_nbr, then item_nbr
KeyBefore(a, b) ==
    \/ DateCode(a.date) < DateCode(b.date)
    \/ /\ a.date = b.date
       /\ \/ a.store_nbr < b.store_nbr
          \/ a.store_nbr = b.store_nbr /\ a.item_nbr < b.item_nbr

RECURSIVE SubsetsUpTo(_, _)
\* the subsets of S with at most n elements
SubsetsUpTo(S, n) ==
    IF n = 0 THEN {{}}
    ELSE LET P == SubsetsUpTo(S, n - 1)
         IN  P \cup {p \cup {x} : p \in P, x \in S}

RECURSIVE FileOrder(_)
\* the keys K in file order
FileOrder(K) ==
    IF K = {} THEN <<>>
    ELSE LET first == CHOOSE k \in K : \A x \in K \ {k} : KeyBefore(k, x)
         IN  <<first>> \o FileOrder(K \ {first})

\* the fact table holding the keys K with the quantities f, in file order
FactTable(K, f) ==
    LET ord == FileOrder(K)
    IN  [i \in DOMAIN ord |-> [date |-> ord[i].date, store_nbr |-> ord[i].store_nbr,
                               item_nbr |-> ord[i].item_nbr, unit_sales |-> f[ord[i]]]]

\* the fact tables over the keys Keys with at most n rows and quantities in Sales
FactTables(Keys, Sales, n) ==
    UNION {{FactTable(K, f) : f \in [K -> Sales]} : K \in SubsetsUpTo(Keys, n)}

Rows(tr) == DOMAIN tr

UnitSales(tr) == [i \in DOMAIN tr |-> tr[i].unit_sales]

TotalSales(S) == SumOver(S, [r \in S |-> r.total_sales])

-----------------------------------------------------------------------------
(* Q1: Pareto analysis, process_question_1 *)

MaxFactsQ1 == 4       \* fact rows of the Pareto inputs
MaxSale == 2          \* largest unit_sales of a fact row of the Pareto inputs

KeysQ1 == {[date |-> d, store_nbr |-> 1, item_nbr |-> i] :
              d \in {Date(2016, 1, 1), Date(2016, 1, 2)}, i \in {1, 2, 3}}

\* unit_sales is negative for a returned item
SalesQ1 == {0 - 1} \cup (1..MaxSale)

Core == "Top 80% (Core Revenue)"
LongTail == "Bottom 20% (Dead Stock / Long Tail)"

\* CTE item_sales: train JOIN items, GROUP BY item_nbr, family, SUM(unit_sales)
item_sales(tr) ==
    {[item_nbr |-> k, family |-> ItemsTable[k].family,
      total_sales |-> SumOver({i \in Rows(tr) : tr[i].item_nbr = k}, UnitSales(tr))] :
        k \in {tr[i].item_nbr : i \in Rows(tr)} \cap DOMAIN ItemsTable}

\* variant: the window ordered by total_sales ascending
running_total_asc(S, r) == TotalSales({x \in S : x.total_sales <= r.total_sales})

\* variant: a frame of rows, in which tied items do not share the running total
running_total_rows(S, r) == TotalSales({x \in S : x.total_sales > r.total_sales} \cup {r})

\* SUM(total_sales) OVER (ORDER BY total_sales DESC): the default frame runs to the
\* last peer of the current row, so items with equal totals share one running total
running_total(S, r) == TotalSales({x \in S : x.total_sales >= r.total_sales})

\* SUM(total_sales) OVER ()
grand_total(S) == TotalSales(S)

\* variant: running_total / grand_total < 0.80
ShareBelow80(run, grand) ==
    IF grand > 0 THEN 5 * run < 4 * grand
    ELSE IF grand < 0 THEN 5 * run > 4 * grand
    ELSE FALSE

\* (running_total / grand_total) <= 0.80; with a zero grand total the quotient is
\* no number and the comparison does not hold
ShareAtMost80(run, grand) ==
    IF grand > 0 THEN 5 * run <= 4 * grand
    ELSE IF grand < 0 THEN 5 * run >= 4 * grand
    ELSE FALSE

\* ROUND((running_total / grand_total) * 100, 2), in hundredths
cumulative_pct(run, grand) ==
    IF grand = 0 THEN Null ELSE Val(RoundDiv(run * 10000, grand))

\* CASE WHEN ... <= 0.80 THEN 'Top 80% (Core Revenue)' ELSE 'Bottom 20% ...' END
pareto_group(run, grand) == IF ShareAtMost80(run, grand) THEN Core ELSE LongTail

\* the rows of the final SELECT
Q1Rows(tr) ==
    LET S == item_sales(tr)
    IN  {[item_nbr |-> r.item_nbr, family |-> r.family, total_sales |-> r.total_sales,
          cumulative_pct |-> cumulative_pct(running_total(S, r), grand_total(S)),
          pareto_group |-> pareto_group(running_total(S, r), grand_total(S))] : r \in S}

\* ORDER BY total_sales DESC: the tables the engine may write, tied rows in any order
Q1Tables(tr) ==
    {t \in Orderings(Q1Rows(tr)) :
        \A i, j \in DOMAIN t : i < j => t[i].total_sales >= t[j].total_sales}

\* process_question_1(con): the table is written, then the insight is computed as
\* core_items / total_items, which raises ZeroDivisionError on an empty table
process_question_1 ==
    /\ "q1" \notin qDone /\ "q1_raised" \notin qDone
    /\ q1' \in Q1Tables(train)
    /\ qDone' = qDone \cup {IF Q1Rows(train) = {} THEN "q1_raised" ELSE "q1"}
    /\ UNCHANGED <<train, q2, notQVars>>

InitQ1 ==
    /\ train \in FactTables(KeysQ1, SalesQ1, MaxFactsQ1)
    /\ q1 = <<>>
    /\ q2 = <<>>
    /\ qDone = {}
    /\ FeedbackIdle /\ ViewsIdle /\ AggIdle /\ CityIdle /\ IngestIdle /\ GoldIdle /\ DashIdle

NextQ1 == process_question_1

SpecQ1 == InitQ1 /\ [][NextQ1]_vars

-----------------------------------------------------------------------------
(* Claims about the Pareto table, checked under SpecQ1.  The shares are     *)
(* computed here from the fact rows, not from the query's intermediate      *)
(* results.                                                                 *)

Q1Ran == qDone \cap {"q1", "q1_raised"} # {}

ItemTotal(k) == SumOver({i \in Rows(train) : train[i].item_nbr = k}, UnitSales(train))

AllSales == SumOver(Rows(train), UnitSales(train))

\* the sales of the items that sold at least as much as item k
CumulatedSales(k) ==
    SumOver({i \in Rows(train) : ItemTotal(train[i].item_nbr) >= ItemTotal(k)},
            UnitSales(train))

\* cumulative share of item k is a number and is at most 0.80
ShareLeq80(k) ==
    /\ AllSales # 0
    /\ AllSales > 0 => 5 * CumulatedSales(k) <= 4 * AllSales
    /\ AllSales < 0 => 5 * CumulatedSales(k) >= 4 * AllSales

\* cumulative share of item k is a number and exceeds 0.80
ShareGt80(k) == AllSales # 0 /\ ~ShareLeq80(k)

\* row i is a row at which the cumulative share first exceeds 0.80
FirstExceeds(i) ==
    /\ ShareGt80(q1[i].item_nbr)
    /\ \A j \in DOMAIN q1 :
          q1[j].total_sales > q1[i].total_sales => ~ShareGt80(q1[j].item_nbr)

\* row i comes after the rows at which the share first exceeds 0.80
AfterBoundary(i) ==
    \E j \in DOMAIN q1 : FirstExceeds(j) /\ q1[j].total_sales > q1[i].total_sales

\* C6: an item is labelled core exactly when its cumulative share (the running
\* total in descending order of total sales, items with equal totals counted
\* together, divided by the grand total) is at most 0.80, and long tail otherwise.
TheoremC6 ==
    Q1Ran =>
        /\ {q1[i].item_nbr : i \in DOMAIN q1} = {train[i].item_nbr : i \in Rows(train)}
        /\ \A i \in DOMAIN q1 :
              /\ q1[i].pareto_group = Core <=> ShareLeq80(q1[i].item_nbr)
              /\ q1[i].pareto_group = LongTail <=> ~ShareLeq80(q1[i].item_nbr)

\* a table with an item of share exactly 0.80 (core) followed by a long-tail item
WitnessC6 ==
    /\ Q1Ran
    /\ \E i, j \in DOMAIN q1 :
          /\ q1[i].cumulative_pct = Val(8000)
          /\ q1[i].pareto_group = Core
          /\ q1[j].pareto_group = LongTail

\* C7 as claimed: the item(s) whose cumulative share first exceeds 0.80 are
\* labelled core, and all items after that boundary are labelled long tail.
ClaimC7 ==
    Q1Ran =>
        \A i \in DOMAIN q1 :
            /\ FirstExceeds(i) => q1[i].pareto_group = Core
            /\ AfterBoundary(i) => q1[i].pareto_group = LongTail

\* C7 amended: the item(s) whose cumulative share first exceeds 0.80 are labelled
\* long tail, as are all items after them; the items before that boundary are
\* core (with a zero grand total no share is a number and every item is long tail).
TheoremC7 ==
    Q1Ran =>
        \A i \in DOMAIN q1 :
            /\ FirstExceeds(i) => q1[i].pareto_group = LongTail
            /\ AfterBoundary(i) => q1[i].pareto_group = LongTail
            /\ (AllSales # 0 /\ ~FirstExceeds(i) /\ ~AfterBoundary(i)) =>
                  q1[i].pareto_group = Core
            /\ AllSales = 0 => q1[i].pareto_group = LongTail

\* three items: core, then the item whose share first exceeds 0.80, then one more
WitnessC7 ==
    /\ Q1Ran
    /\ Len(q1) = 3
    /\ q1[1].pareto_group = Core /\ ~FirstExceeds(1)
    /\ q1[2].pareto_group = LongTail /\ FirstExceeds(2)
    /\ q1[3].pareto_group = LongTail /\ AfterBoundary(3)

\* C8 as claimed: for every fact table, unit_sales of either sign, cumulative_pct
\* is non-decreasing when the rows are read in descending order of total_sales.
ClaimC8 ==
    Q1Ran =>
        \A i, j \in DOMAIN q1 :
            (i < j /\ ~q1[i].cumulative_pct.null /\ ~q1[j].cumulative_pct.null) =>
                q1[i].cumulative_pct.v <= q1[j].cumulative_pct.v

\* C8 amended: when no per-item total is negative and the grand total is positive,
\* cumulative_pct is non-decreasing in descending order of total_sales.
TheoremC8 ==
    (Q1Ran /\ AllSales > 0 /\ \A i \in Rows(train) : ItemTotal(train[i].item_nbr) >= 0) =>
        \A i, j \in DOMAIN q1 :
            i < j =>
                /\ ~q1[i].cumulative_pct.null /\ ~q1[j].cumulative_pct.null
                /\ q1[i].cumulative_pct.v <= q1[j].cumulative_pct.v

\* three items with non-negative totals, one of them with a returned unit, and
\* strictly growing cumulative percentages
WitnessC8 ==
    /\ Q1Ran
    /\ AllSales > 0
    /\ \A i \in Rows(train) : ItemTotal(train[i].item_nbr) >= 0
    /\ Len(q1) = 2
    /\ \E i \in Rows(train) : train[i].unit_sales < 0
    /\ q1[1].cumulative_pct.v < q1[2].cumulative_pct.v

-----------------------------------------------------------------------------
(* Q2: perishable goods growth, process_question_2 *)

MaxFactsQ2 == 4       \* fact rows of the growth inputs

TargetYear == 2016
TopStores == 20

YearsQ2 == {TargetYear - 2, TargetYear - 1, TargetYear}

\* store 1 sells every item in each of the three years; store 2 sells the
\* perishable item 1 in the last two years
KeysQ2 ==
    {[date |-> Date(y, 1, 1), store_nbr |-> 1, item_nbr |-> i] :
        y \in YearsQ2, i \in {1, 2, 3}}
    \cup {[date |-> Date(y, 1, 1), store_nbr |-> 2, item_nbr |-> 1] :
             y \in {TargetYear - 1, TargetYear}}

SalesQ2 == {100, 150}

\* variant: the filter on perishable items is missing
AnyItem(item_nbr) == item_nbr \in DOMAIN ItemsTable

\* JOIN items ... WHERE i.perishable = 1
Perishable(item_nbr) ==
    item_nbr \in DOMAIN ItemsTable /\ ItemsTable[item_nbr].perishable = 1

\* the fact rows of the join train, items, stores that pass the WHERE clause
PerishableRows(tr) ==
    {i \in Rows(tr) : Perishable(tr[i].item_nbr) /\ tr[i].store_nbr \in DOMAIN StoresTable}

\* CTE annual_perishable_sales: GROUP BY store_nbr, city, sales_year
annual_perishable_sales(tr) ==
    {[store_nbr |-> g[1], city |-> StoresTable[g[1]].city, sales_year |-> g[2],
      total_perishable_sales |->
          SumOver({i \in PerishableRows(tr) :
                      tr[i].store_nbr = g[1] /\ Year(tr[i].date) = g[2]}, UnitSales(tr))] :
        g \in {<<tr[i].store_nbr, Year(tr[i].date)>> : i \in PerishableRows(tr)}}

\* LAG(total_perishable_sales) OVER (PARTITION BY store_nbr ORDER BY sales_year):
\* the value of the preceding row of the store's partition, NULL for its first row
prev_year_sales(aps, r) ==
    LET before == {x \in aps : x.store_nbr = r.store_nbr /\ x.sales_year < r.sales_year}
    IN  IF before = {} THEN Null
        ELSE Val((CHOOSE x \in before :
                     \A y \in before : y.sales_year <= x.sales_year).total_perishable_sales)

\* CTE growth_calculation
growth_calculation(tr) ==
    LET aps == annual_perishable_sales(tr)
    IN  {[store_nbr |-> r.store_nbr, city |-> r.city, sales_year |-> r.sales_year,
          total_perishable_sales |-> r.total_perishable_sales,
          prev_year_sales |-> prev_year_sales(aps, r)] : r \in aps}

\* ROUND(((total_perishable_sales - prev_year_sales) / prev_year_sales) * 100, 2),
\* in hundredths; no number when the previous value is zero
growth_pct(cur, prev) ==
    IF prev = 0 THEN Null ELSE Val(RoundDiv((cur - prev) * 10000, prev))

\* WHERE sales_year = 2016 AND prev_year_sales IS NOT NULL
Q2Selected(tr) ==
    {r \in growth_calculation(tr) : r.sales_year = TargetYear /\ ~r.prev_year_sales.null}

\* the final SELECT of a selected row; the table has no store column, store_nbr is
\* kept here only to tell which store a row came from
Q2Row(r) ==
    [store_nbr |-> r.store_nbr, city |-> r.city, sales_year |-> r.sales_year,
     current_sales |-> r.total_perishable_sales, previous_sales |-> r.prev_year_sales.v,
     growth_pct |-> growth_pct(r.total_perishable_sales, r.prev_year_sales.v)]

\* ORDER BY total_perishable_sales DESC LIMIT 20
Q2Tables(tr) ==
    {[i \in 1..(IF Len(t) < TopStores THEN Len(t) ELSE TopStores) |-> Q2Row(t[i])] :
        t \in {o \in Orderings(Q2Selected(tr)) :
                  \A i, j \in DOMAIN o :
                      i < j => o[i].total_perishable_sales >= o[j].total_perishable_sales}}

\* process_question_2(con)
process_question_2 ==
    /\ "q2" \notin qDone
    /\ q2' \in Q2Tables(train)
    /\ qDone' = qDone \cup {"q2"}
    /\ UNCHANGED <<train, q1, notQVars>>

InitQ2 ==
    /\ train \in FactTables(KeysQ2, SalesQ2, MaxFactsQ2)
    /\ q1 = <<>>
    /\ q2 = <<>>
    /\ qDone = {}
    /\ FeedbackIdle /\ ViewsIdle /\ AggIdle /\ CityIdle /\ IngestIdle /\ GoldIdle /\ DashIdle

NextQ2 == process_question_2

SpecQ2 == InitQ2 /\ [][NextQ2]_vars

-----------------------------------------------------------------------------
(* Claims about the growth table, checked under SpecQ2.  The yearly totals  *)
(* are computed here from the fact rows.                                    *)

Q2Ran == "q2" \in qDone

\* the fact rows of perishable items of store st in year y
StoreYearRows(st, y) ==
    {i \in Rows(train) : /\ train[i].store_nbr = st
                         /\ Year(train[i].date) = y
                         /\ ItemsTable[train[i].item_nbr].perishable = 1}

StoreYearTotal(st, y) == SumOver(StoreYearRows(st, y), UnitSales(train))

\* C9 as claimed: a store with perishable sales in 2016 and no perishable record
\* for 2015 has no output row; the previous value of a row is the store's total
\* of the prior calendar year.
ClaimC9 ==
    Q2Ran =>
        \A i \in DOMAIN q2 :
            /\ StoreYearRows(q2[i].store_nbr, TargetYear - 1) # {}
            /\ q2[i].previous_sales = StoreYearTotal(q2[i].store_nbr, TargetYear - 1)

\* C10: the row of a store with perishable totals p # 0 in 2015 and c in 2016 has
\* growth_pct = (c - p) / p * 100 rounded to two decimals, p and c summed over the
\* store's perishable items only; such a store has a row when at most 20 stores do.
TheoremC10 ==
    Q2Ran =>
        /\ \A i \in DOMAIN q2 :
              LET st == q2[i].store_nbr
                  p  == StoreYearTotal(st, TargetYear - 1)
                  c  == StoreYearTotal(st, TargetYear)
              IN  (StoreYearRows(st, TargetYear - 1) # {} /\ p # 0) =>
                      /\ q2[i].growth_pct = Val(RoundDiv((c - p) * 10000, p))
                      /\ q2[i].current_sales = c
                      /\ q2[i].previous_sales = p
        /\ \A st \in DOMAIN StoresTable :
              (/\ StoreYearRows(st, TargetYear - 1) # {}
               /\ StoreYearRows(st, TargetYear) # {}
               /\ Cardinality(DOMAIN StoresTable) <= TopStores) =>
                  \E i \in DOMAIN q2 : q2[i].store_nbr = st

\* sales 100 in 2015 and 150 in 2016 give 50.0, with a sale of a non-perishable
\* item of the same store in 2016 left out of the sums
WitnessC10 ==
    /\ Q2Ran
    /\ \E i \in DOMAIN q2 :
          /\ q2[i].previous_sales = 100
          /\ q2[i].current_sales = 150
          /\ q2[i].growth_pct = Val(5000)
          /\ \E k \in Rows(train) :
                /\ train[k].store_nbr = q2[i].store_nbr
                /\ Year(train[k].date) = TargetYear
                /\ ItemsTable[train[k].item_nbr].perishable = 0

-----------------------------------------------------------------------------
(* Q3: top product families per city, process_question_3 *)

MaxFactsQ3 == 4       \* fact rows of the Q3 inputs
MaxSaleQ3 == 4        \* largest unit_sales of a fact row of the Q3 inputs

TopRanks == 3         \* QUALIFY rank_in_city <= 3

\* store 1 (Quito) sells the five items, store 2 (Guayaquil) one
KeysQ3 ==
    {[date |-> Date(2016, 1, 1), store_nbr |-> 1, item_nbr |-> i] : i \in DOMAIN ItemsTable}
    \cup {[date |-> Date(2016, 1, 1), store_nbr |-> 2, item_nbr |-> 1]}

SalesQ3 == 1..MaxSaleQ3

\* the collating order of the city names
CityOrder == ("Cayambe" :> 1) @@ ("Guayaquil" :> 2) @@ ("Quito" :> 3)

\* train JOIN stores JOIN items
Joined(tr) ==
    {i \in Rows(tr) : tr[i].store_nbr \in DOMAIN StoresTable
                      /\ tr[i].item_nbr \in DOMAIN ItemsTable}

\* GROUP BY s.city, i.family with SUM(t.unit_sales)
city_family_sales(tr) ==
    LET J == Joined(tr)
        groups == {<<StoresTable[tr[i].store_nbr].city, ItemsTable[tr[i].item_nbr].family>> :
                      i \in J}
    IN  {[city |-> g[1], family |-> g[2],
          total |-> SumOver({i \in J : /\ StoresTable[tr[i].store_nbr].city = g[1]
                                       /\ ItemsTable[tr[i].item_nbr].family = g[2]},
                            UnitSales(tr))] : g \in groups}

\* variant: DENSE_RANK, which numbers the distinct totals
rank_in_city_dense(S, r) ==
    1 + Cardinality({x.total : x \in {y \in S : y.city = r.city /\ y.total > r.total}})

\* RANK() OVER (PARTITION BY s.city ORDER BY SUM(t.unit_sales) DESC): one more than
\* the number of rows of the partition that sort strictly before the row
rank_in_city(S, r) ==
    1 + Cardinality({x \in S : x.city = r.city /\ x.total > r.total})

\* the rows that pass QUALIFY rank_in_city <= 3; total_sold in hundredths
Q3Rows(tr) ==
    LET S == city_family_sales(tr)
    IN  {[city |-> r.city, family |-> r.family, total_sold |-> 100 * r.total,
          rank_in_city |-> rank_in_city(S, r)] :
            r \in {x \in S : rank_in_city(S, x) <= TopRanks}}

\* ORDER BY s.city, rank_in_city
Q3Tables(tr) ==
    LET R == Q3Rows(tr)
    IN  SortedSeqs(R, [r \in R |-> <<CityOrder[r.city], r.rank_in_city>>])

process_question_3 ==
    /\ "q3" \notin qDone
    /\ q3' \in Q3Tables(train)
    /\ qDone' = qDone \cup {"q3"}
    /\ UNCHANGED <<train, q1, q2, transactions, holidays_events, q4, q5, q6, notCityVars>>

InitQ3 ==
    /\ train \in FactTables(KeysQ3, SalesQ3, MaxFactsQ3)
    /\ q1 = <<>> /\ q2 = <<>> /\ qDone = {}
    /\ CityIdle
    /\ FeedbackIdle /\ ViewsIdle /\ AggIdle /\ IngestIdle /\ GoldIdle /\ DashIdle

NextQ3 == process_question_3

SpecQ3 == InitQ3 /\ [][NextQ3]_vars

-----------------------------------------------------------------------------
(* Claims about the top-products table, checked under SpecQ3.  The totals   *)
(* are computed here from the fact rows.                                    *)

Cities == {StoresTable[s].city : s \in DOMAIN StoresTable}
Families == {ItemsTable[i].family : i \in DOMAIN ItemsTable}

\* the fact rows of family f sold in city c
CityFamilyFacts(c, f) ==
    {i \in Rows(train) : /\ train[i].store_nbr \in DOMAIN StoresTable
                         /\ train[i].item_nbr \in DOMAIN ItemsTable
                         /\ StoresTable[train[i].store_nbr].city = c
                         /\ ItemsTable[train[i].item_nbr].family = f}

CityFamilyTotal(c, f) == SumOver(CityFamilyFacts(c, f), UnitSales(train))

\* the families sold in city c with a strictly greater total than family f
GreaterFamilies(c, f) ==
    {g \in Families : CityFamilyFacts(c, g) # {} /\ CityFamilyTotal(c, g) > CityFamilyTotal(c, f)}

Q3RowsOf(c, f) == {i \in DOMAIN q3 : q3[i].city = c /\ q3[i].family = f}

-----------------------------------------------------------------------------
(* Q4: basket size per city, process_question_4.                            *)
(* Table transactions holds one record per store and date, as the source    *)
(* file does; a record is [date, store_nbr, transactions].                   *)

MaxFactsQ4 == 3       \* fact rows of the Q4 inputs
MaxTxQ4 == 3          \* records of table transactions

\* stores 1 and 4 are in Quito; store 1 may sell two items on the first day
KeysQ4 ==
    {[date |-> Date(2016, 1, 1), store_nbr |-> st, item_nbr |-> 1] : st \in DOMAIN StoresTable}
    \cup {[date |-> Date(2016, 1, 1), store_nbr |-> 1, item_nbr |-> 2]}

SalesQ4 == {1, 2}

\* the (store, date) pairs that may have a transactions record; no fact row of
\* KeysQ4 is dated 2016-01-02
TxKeysQ4 ==
    {[date |-> Date(2016, 1, 1), store_nbr |-> st] : st \in DOMAIN StoresTable}
    \cup {[date |-> Date(2016, 1, 2), store_nbr |-> 1]}

TxCounts == {1, 2}

\* the transactions tables over the pairs Keys with at most n records
TxTables(Keys, Counts, n) ==
    UNION {{{[date |-> k.date, store_nbr |-> k.store_nbr, transactions |-> f[k]] : k \in K} :
               f \in [K -> Counts]} : K \in SubsetsUpTo(Keys, n)}

\* variant: no pre-aggregation, one row per fact row
daily_sales_rows(tr) ==
    {[store_nbr |-> tr[i].store_nbr, date |-> tr[i].date, daily_items |-> tr[i].unit_sales,
      row |-> i] : i \in Rows(tr)}

\* CTE daily_sales_agg: SUM(unit_sales) FROM train GROUP BY store_nbr, date
daily_sales_agg(tr) ==
    {[store_nbr |-> g[1], date |-> g[2],
      daily_items |-> SumOver({i \in Rows(tr) : tr[i].store_nbr = g[1] /\ tr[i].date = g[2]},
                              UnitSales(tr))] :
        g \in {<<tr[i].store_nbr, tr[i].date>> : i \in Rows(tr)}}

\* daily_sales_agg dsa JOIN transactions tr ON store_nbr, date JOIN stores s
city_stats_join(tr, tx) ==
    {[dsa |-> p[1], tr |-> p[2], city |-> StoresTable[p[1].store_nbr].city] :
        p \in {x \in daily_sales_agg(tr) \X tx :
                  /\ x[1].store_nbr = x[2].store_nbr /\ x[1].date = x[2].date
                  /\ x[1].store_nbr \in DOMAIN StoresTable}}

\* CTE city_stats: GROUP BY s.city with SUM(dsa.daily_items), SUM(tr.transactions)
city_stats(tr, tx) ==
    LET J == city_stats_join(tr, tx)
    IN  {[city |-> c,
          total_items_sold |-> SumOver({j \in J : j.city = c}, [j \in J |-> j.dsa.daily_items]),
          total_transactions |-> SumOver({j \in J : j.city = c}, [j \in J |-> j.tr.transactions])] :
            c \in {j.city : j \in J}}

\* a's basket size total_items_sold / total_transactions is greater than b's
BasketGreater(a, b) ==
    a.total_items_sold * b.total_transactions > b.total_items_sold * a.total_transactions

\* variant: RANK, which leaves a gap after a tie
city_rank_gaps(S, r) == 1 + Cardinality({x \in S : BasketGreater(x, r)})

\* DENSE_RANK() OVER (ORDER BY (total_items_sold / total_transactions) DESC): one
\* more than the number of distinct greater basket sizes
city_rank(S, r) ==
    LET G == {x \in S : BasketGreater(x, r)}
    IN  1 + Cardinality({{y \in G : ~BasketGreater(x, y) /\ ~BasketGreater(y, x)} : x \in G})

\* the rows of the final SELECT; avg_basket_size in hundredths
Q4Rows(tr, tx) ==
    LET S == city_stats(tr, tx)
    IN  {[city |-> r.city, total_items_sold |-> r.total_items_sold,
          total_transactions |-> r.total_transactions,
          avg_basket_size |-> RoundDiv(100 * r.total_items_sold, r.total_transactions),
          city_rank |-> city_rank(S, r)] : r \in S}

\* ORDER BY city_rank
Q4Tables(tr, tx) ==
    LET R == Q4Rows(tr, tx)
    IN  SortedSeqs(R, [r \in R |-> <<r.city_rank>>])

process_question_4 ==
    /\ "q4" \notin qDone
    /\ q4' \in Q4Tables(train, transactions)
    /\ qDone' = qDone \cup {"q4"}
    /\ UNCHANGED <<train, q1, q2, transactions, holidays_events, q3, q5, q6, notCityVars>>

InitQ4 ==
    /\ train \in FactTables(KeysQ4, SalesQ4, MaxFactsQ4)
    /\ transactions \in TxTables(TxKeysQ4, TxCounts, MaxTxQ4)
    /\ q1 = <<>> /\ q2 = <<>> /\ qDone = {}
    /\ holidays_events = {}
    /\ q3 = <<>> /\ q4 = <<>> /\ q5 = <<>> /\ q6 = <<>>
    /\ FeedbackIdle /\ ViewsIdle /\ AggIdle /\ IngestIdle /\ GoldIdle /\ DashIdle

NextQ4 == process_question_4

SpecQ4 == InitQ4 /\ [][NextQ4]_vars

-----------------------------------------------------------------------------
(* Claims about the basket-size table, checked under SpecQ4 *)

\* the transactions records of the stores of city c
CityTx(c) ==
    {t \in transactions : t.store_nbr \in DOMAIN StoresTable /\ StoresTable[t.store_nbr].city = c}

\* the fact rows of the store and date of transactions record t
FactsOf(t) == {i \in Rows(train) : train[i].store_nbr = t.store_nbr /\ train[i].date = t.date}

TxCount(S) == SumOver(S, [t \in S |-> t.transactions])

\* the fact rows of city c whose store and date have a transactions record
CityMatchedFacts(c) == UNION {FactsOf(t) : t \in CityTx(c)}

Q4RowsOf(c) == {i \in DOMAIN q4 : q4[i].city = c}

\* C12 as stated: every transactions record of a city's stores is counted once in
\* the city's total_transactions, whatever the number of fact rows of its store
\* and date, and total_items_sold sums the fact rows of the recorded pairs
ClaimC12 ==
    "q4" \in qDone =>
        \A c \in Cities :
            CityTx(c) # {} =>
                /\ Cardinality(Q4RowsOf(c)) = 1
                /\ \A i \in Q4RowsOf(c) :
                      /\ q4[i].total_transactions = TxCount(CityTx(c))
                      /\ q4[i].total_items_sold =
                            SumOver(CityMatchedFacts(c), UnitSales(train))

\* C12, amended: a transactions record is counted once in its city's
\* total_transactions when its store and date have one or more fact rows, and
\* not at all when they have none; total_items_sold sums the fact rows of the
\* recorded pairs; a city without such a pair has no row
TheoremC12 ==
    "q4" \in qDone =>
        \A c \in Cities :
            LET counted == {t \in CityTx(c) : FactsOf(t) # {}}
            IN  /\ Cardinality(Q4RowsOf(c)) = (IF counted = {} THEN 0 ELSE 1)
                /\ \A i \in Q4RowsOf(c) :
                      /\ q4[i].total_transactions = TxCount(counted)
                      /\ q4[i].total_items_sold =
                            SumOver(CityMatchedFacts(c), UnitSales(train))

\* a recorded store and date with two fact rows, in a city that also has a
\* transactions record without fact rows
WitnessC12 ==
    /\ "q4" \in qDone
    /\ \E c \in Cities :
          /\ Q4RowsOf(c) # {}
          /\ \E t \in CityTx(c) : Cardinality(FactsOf(t)) = 2
          /\ \E t \in CityTx(c) : FactsOf(t) = {}

\* C13: city_rank is a dense ranking by total_items_sold / total_transactions
\* descending: equal basket sizes share a rank, a larger basket size has a
\* smaller rank, and the ranks used are 1..k without a gap
TheoremC13 ==
    "q4" \in qDone =>
        /\ \A i, j \in DOMAIN q4 :
              /\ (~BasketGreater(q4[i], q4[j]) /\ ~BasketGreater(q4[j], q4[i]))
                    => q4[i].city_rank = q4[j].city_rank
              /\ BasketGreater(q4[i], q4[j]) => q4[i].city_rank < q4[j].city_rank
        /\ \E k \in 0..Len(q4) : {q4[i].city_rank : i \in DOMAIN q4} = 1..k

\* two cities tied at rank 1, followed by a city of rank 2
WitnessC13 ==
    /\ "q4" \in qDone
    /\ Cardinality({i \in DOMAIN q4 : q4[i].city_rank = 1}) = 2
    /\ \E i \in DOMAIN q4 : q4[i].city_rank = 2

-----------------------------------------------------------------------------
(* Q5: local against national holidays, process_question_5.                 *)
(* A holiday row is [date, type, locale, locale_name, transferred].          *)

MaxFactsQ5 == 3       \* fact rows of the Q5 inputs

DaysQ5 == {Date(2016, 1, 1), Date(2016, 1, 2), Date(2016, 1, 3)}

\* stores 1 (Quito) and 2 (Guayaquil) sell item 1 on the three days
KeysQ5 == {[date |-> d, store_nbr |-> st, item_nbr |-> 1] : d \in DaysQ5, st \in {1, 2}}

SalesQ5 == {1, 2}

Holiday(date, type, locale, locale_name, transferred) ==
    [date |-> date, type |-> type, locale |-> locale, locale_name |-> locale_name,
     transferred |-> transferred]

\* the rows table holidays_events may hold
HolidayRows ==
    {Holiday(Date(2016, 1, 1), "Holiday", "National", "Ecuador", FALSE),
     Holiday(Date(2016, 1, 2), "Holiday", "National", "Ecuador", FALSE),
     Holiday(Date(2016, 1, 2), "Holiday", "Local", "Guayaquil", FALSE),
     Holiday(Date(2016, 1, 3), "Holiday", "Local", "Quito", FALSE),
     Holiday(Date(2016, 1, 3), "Holiday", "National", "Ecuador", TRUE),
     Holiday(Date(2016, 1, 3), "Event", "National", "Ecuador", FALSE),
     Holiday(Date(2016, 1, 1), "Holiday", "Local", "Quito", TRUE)}

\* SQL MAX and AVG over a set of integers; NULL over no value.  An average is
\* held as the pair sum, count
MaxOf(V) == IF V = {} THEN Null ELSE Val(CHOOSE x \in V : \A y \in V : y <= x)

NullAvg == [null |-> TRUE, sum |-> 0, count |-> 1]

\* AVG over the rows G of the non-NULL values col[g]
AvgOf(G, col) ==
    LET N == {g \in G : ~col[g].null}
    IN  IF N = {} THEN NullAvg
        ELSE [null |-> FALSE, sum |-> SumOver(N, [g \in N |-> col[g].v]),
              count |-> Cardinality(N)]

\* ROUND(avg, 2), in hundredths
RoundAvg(a) == IF a.null THEN Null ELSE Val(RoundDiv(100 * a.sum, a.count))

\* CTE city_daily_sales: train JOIN stores GROUP BY s.city, t.date
city_daily_sales(tr) ==
    LET J == {i \in Rows(tr) : tr[i].store_nbr \in DOMAIN StoresTable}
    IN  {[city |-> g[1], date |-> g[2],
          total_daily_sales |->
              SumOver({i \in J : StoresTable[tr[i].store_nbr].city = g[1] /\ tr[i].date = g[2]},
                      UnitSales(tr))] :
            g \in {<<StoresTable[tr[i].store_nbr].city, tr[i].date>> : i \in J}}

\* city_daily_sales cs JOIN holidays_events h ON cs.date = h.date
\* WHERE h.type = 'Holiday' AND h.transferred = 'false'
holiday_join(tr, hs) ==
    {p \in city_daily_sales(tr) \X hs :
        p[1].date = p[2].date /\ p[2].type = "Holiday" /\ p[2].transferred = FALSE}

\* CTE holiday_stats_raw: GROUP BY cs.city, h.locale with
\* MAX(CASE WHEN h.locale = 'National' THEN cs.total_daily_sales END) and
\* MAX(CASE WHEN h.locale = 'Local' AND h.locale_name = cs.city THEN ... END)
holiday_stats_raw(tr, hs) ==
    LET J == holiday_join(tr, hs)
    IN  {[city |-> g[1], locale |-> g[2],
          national_avg_raw |->
              MaxOf({p[1].total_daily_sales :
                        p \in {x \in J : /\ x[1].city = g[1] /\ x[2].locale = g[2]
                                         /\ x[2].locale = "National"}}),
          local_avg_raw |->
              MaxOf({p[1].total_daily_sales :
                        p \in {x \in J : /\ x[1].city = g[1] /\ x[2].locale = g[2]
                                         /\ x[2].locale = "Local"
                                         /\ x[2].locale_name = x[1].city}})] :
            g \in {<<p[1].city, p[2].locale>> : p \in J}}

\* variant: no HAVING clause, every city of holiday_stats_raw is kept
final_averages_all(tr, hs) ==
    LET R == holiday_stats_raw(tr, hs)
    IN  {[city |-> c,
          national_holiday_avg |->
              AvgOf({r \in R : r.city = c}, [r \in R |-> r.national_avg_raw]),
          local_holiday_avg |->
              AvgOf({r \in R : r.city = c}, [r \in R |-> r.local_avg_raw])] :
            c \in {r.city : r \in R}}

\* CTE final_averages: GROUP BY city with AVG of the two columns,
\* HAVING local_holiday_avg IS NOT NULL
final_averages(tr, hs) ==
    LET R == holiday_stats_raw(tr, hs)
        all == {[city |-> c,
                 national_holiday_avg |->
                     AvgOf({r \in R : r.city = c}, [r \in R |-> r.national_avg_raw]),
                 local_holiday_avg |->
                     AvgOf({r \in R : r.city = c}, [r \in R |-> r.local_avg_raw])] :
                   c \in {r.city : r \in R}}
    IN  {a \in all : ~a.local_holiday_avg.null}

\* the average a is greater than the average b; not so when either is NULL
AvgGreater(a, b) == ~a.null /\ ~b.null /\ a.sum * b.count > b.sum * a.count

\* CASE WHEN local_holiday_avg > national_holiday_avg THEN 'Local' ELSE 'National'
winner_type(a) ==
    IF AvgGreater(a.local_holiday_avg, a.national_holiday_avg) THEN "Local" ELSE "National"

\* RANK() OVER (ORDER BY local_holiday_avg DESC)
local_holiday_rank(S, a) ==
    1 + Cardinality({x \in S : AvgGreater(x.local_holiday_avg, a.local_holiday_avg)})

\* the rows of the final SELECT
Q5Rows(tr, hs) ==
    LET S == final_averages(tr, hs)
    IN  {[city |-> a.city,
          national_holiday_avg |-> RoundAvg(a.national_holiday_avg),
          local_holiday_avg |-> RoundAvg(a.local_holiday_avg),
          winner_type |-> winner_type(a),
          local_holiday_rank |-> local_holiday_rank(S, a)] : a \in S}

\* ORDER BY local_holiday_rank
Q5Tables(tr, hs) ==
    LET R == Q5Rows(tr, hs)
    IN  SortedSeqs(R, [r \in R |-> <<r.local_holiday_rank>>])

process_question_5 ==
    /\ "q5" \notin qDone
    /\ q5' \in Q5Tables(train, holidays_events)
    /\ qDone' = qDone \cup {"q5"}
    /\ UNCHANGED <<train, q1, q2, transactions, holidays_events, q3, q4, q6, notCityVars>>

InitQ5 ==
    /\ train \in FactTables(KeysQ5, SalesQ5, MaxFactsQ5)
    /\ holidays_events \in SUBSET HolidayRows
    /\ q1 = <<>> /\ q2 = <<>> /\ qDone = {}
    /\ transactions = {}
    /\ q3 = <<>> /\ q4 = <<>> /\ q5 = <<>> /\ q6 = <<>>
    /\ FeedbackIdle /\ ViewsIdle /\ AggIdle /\ IngestIdle /\ GoldIdle /\ DashIdle

NextQ5 == process_question_5

SpecQ5 == InitQ5 /\ [][NextQ5]_vars

-----------------------------------------------------------------------------
(* Claims about the holiday-impact table, checked under SpecQ5 *)

\* the day's sales total of city c
CityDayTotal(c, d) ==
    SumOver({i \in Rows(train) : /\ train[i].store_nbr \in DOMAIN StoresTable
                                 /\ StoresTable[train[i].store_nbr].city = c
                                 /\ train[i].date = d},
            UnitSales(train))

\* the days on which city c has sales
CityDays(c) ==
    {train[i].date : i \in {j \in Rows(train) : /\ train[j].store_nbr \in DOMAIN StoresTable
                                                /\ StoresTable[train[j].store_nbr].city = c}}

NationalDays ==
    {h.date : h \in {x \in holidays_events :
                        x.type = "Holiday" /\ ~x.transferred /\ x.locale = "National"}}

LocalDays(c) ==
    {h.date : h \in {x \in holidays_events :
                        /\ x.type = "Holiday" /\ ~x.transferred
                        /\ x.locale = "Local" /\ x.locale_name = c}}

\* the arithmetic mean, rounded to hundredths, of city c's daily totals over the
\* days D on which it has sales; NULL over no day
MeanDaily(c, D) ==
    LET days == D \cap CityDays(c)
    IN  IF days = {} THEN Null
        ELSE Val(RoundDiv(100 * SumOver(days, [d \in days |-> CityDayTotal(c, d)]),
                          Cardinality(days)))

\* C14 as stated: national_holiday_avg is the mean of the city's daily totals
\* over the non-transferred national holidays, local_holiday_avg the mean over
\* the non-transferred local holidays named after the city
ClaimC14 ==
    "q5" \in qDone =>
        \A i \in DOMAIN q5 :
            /\ q5[i].national_holiday_avg = MeanDaily(q5[i].city, NationalDays)
            /\ q5[i].local_holiday_avg = MeanDaily(q5[i].city, LocalDays(q5[i].city))

-----------------------------------------------------------------------------
(* Q6: geographic cube, process_question_6_cube.                            *)
(* A grouping key that CUBE aggregates away is NULL in the group's row;     *)
(* NoKey stands for that NULL.                                              *)

MaxFactsQ6 == 3       \* fact rows of the Q6 inputs

KeysQ6 ==
    {[date |-> Date(2016, 1, 1), store_nbr |-> st, item_nbr |-> 1] : st \in DOMAIN StoresTable}
    \cup {[date |-> Date(2016, 1, 1), store_nbr |-> 1, item_nbr |-> 2]}

SalesQ6 == {1, 2}

NoKey == "NULL"

\* the grouping sets of CUBE(s.state, s.city): for each key, kept or aggregated away
GroupingSets == [state : BOOLEAN, city : BOOLEAN]

\* GROUP BY CUBE(s.state, s.city) over train JOIN stores: the groups of every
\* grouping set, each with SUM(t.unit_sales)
cube_groups(tr) ==
    LET J == {i \in Rows(tr) : tr[i].store_nbr \in DOMAIN StoresTable}
        KeyOf(gs, i) == [state |-> IF gs.state THEN StoresTable[tr[i].store_nbr].state ELSE NoKey,
                         city |-> IF gs.city THEN StoresTable[tr[i].store_nbr].city ELSE NoKey]
    IN  {[gs |-> g[1], state |-> g[2].state, city |-> g[2].city,
          total |-> SumOver({i \in J : KeyOf(g[1], i) = g[2]}, UnitSales(tr))] :
            g \in {<<gs, KeyOf(gs, i)>> : gs \in GroupingSets, i \in J}}

\* CASE WHEN s.state IS NULL AND s.city IS NULL THEN 'National Level'
\*      WHEN s.state IS NOT NULL AND s.city IS NULL THEN 'State Level'
\*      ELSE 'City Level' END
aggregation_level(g) ==
    IF g.state = NoKey /\ g.city = NoKey THEN "National Level"
    ELSE IF g.state # NoKey /\ g.city = NoKey THEN "State Level"
    ELSE "City Level"

\* the rows of the SELECT: COALESCE(s.state, 'Grand Total'),
\* COALESCE(s.city, 'All Cities'), ROUND(SUM(t.unit_sales), 2) in hundredths
Q6Rows(tr) ==
    {[gs |-> g.gs,
      state |-> IF g.state = NoKey THEN "Grand Total" ELSE g.state,
      city |-> IF g.city = NoKey THEN "All Cities" ELSE g.city,
      total_sales |-> 100 * g.total,
      aggregation_level |-> aggregation_level(g)] : g \in cube_groups(tr)}

\* a row as stored: the grouping set it came from is not a column
Q6Row(r) ==
    [state |-> r.state, city |-> r.city, total_sales |-> r.total_sales,
     aggregation_level |-> r.aggregation_level]

\* ORDER BY total_sales DESC
Q6Tables(tr) ==
    LET R == Q6Rows(tr)
    IN  {[i \in DOMAIN t |-> Q6Row(t[i])] :
            t \in SortedSeqs(R, [r \in R |-> <<0 - r.total_sales>>])}

process_question_6_cube ==
    /\ "q6" \notin qDone
    /\ q6' \in Q6Tables(train)
    /\ qDone' = qDone \cup {"q6"}
    /\ UNCHANGED <<train, q1, q2, transactions, holidays_events, q3, q4, q5, notCityVars>>

\* a lake with at least one fact row
InitQ6 ==
    /\ train \in FactTables(KeysQ6, SalesQ6, MaxFactsQ6) \ {<<>>}
    /\ q1 = <<>> /\ q2 = <<>> /\ qDone = {}
    /\ CityIdle
    /\ FeedbackIdle /\ ViewsIdle /\ AggIdle /\ IngestIdle /\ GoldIdle /\ DashIdle

NextQ6 == process_question_6_cube

SpecQ6 == InitQ6 /\ [][NextQ6]_vars

-----------------------------------------------------------------------------
(* Claims about the geographic table, checked under SpecQ6 *)

StoreFacts(S) == {i \in Rows(train) : train[i].store_nbr \in S}

StoresOfState(st) == {s \in DOMAIN StoresTable : StoresTable[s].state = st}

StoresOfCity(st, c) ==
    {s \in DOMAIN StoresTable : StoresTable[s].state = st /\ StoresTable[s].city = c}

GeoRow(state, city, S, level) ==
    [state |-> state, city |-> city,
     total_sales |-> 100 * SumOver(StoreFacts(S), UnitSales(train)),
     aggregation_level |-> level]

\* the rows of the three granularities: grand total, states, (state, city) pairs
ThreeLevels ==
    {GeoRow("Grand Total", "All Cities", DOMAIN StoresTable, "National Level")}
    \cup {GeoRow(StoresTable[s].state, "All Cities", StoresOfState(StoresTable[s].state),
                 "State Level") : s \in {train[i].store_nbr : i \in Rows(train)}}
    \cup {GeoRow(StoresTable[s].state, StoresTable[s].city,
                 StoresOfCity(StoresTable[s].state, StoresTable[s].city), "City Level") :
             s \in {train[i].store_nbr : i \in Rows(train)}}

\* C15 as stated: the geographic table holds exactly the grand-total row, one
\* row per state and one row per (state, city) pair, each tagged with its
\* granularity, and 'City Level' rows carry the city's actual state
ClaimC15 ==
    "q6" \in qDone =>
        /\ Range(q6) = ThreeLevels
        /\ Len(q6) = Cardinality(ThreeLevels)

-----------------------------------------------------------------------------
(* Date normalization, get_date_expression.                                 *)
(* A text is a sequence of one-character strings.  TRY_STRPTIME follows the *)
(* engine's parser: leading and trailing spaces are skipped, the literals   *)
(* of the format must match, and a numeric specifier reads one digit or     *)
(* more, up to its width.                                                   *)

Digits == {"0", "1", "2", "3", "4", "5", "6", "7", "8", "9"}

DigitVal ==
    ("0" :> 0) @@ ("1" :> 1) @@ ("2" :> 2) @@ ("3" :> 3) @@ ("4" :> 4) @@
    ("5" :> 5) @@ ("6" :> 6) @@ ("7" :> 7) @@ ("8" :> 8) @@ ("9" :> 9)

NullDate == [null |-> TRUE]
DateVal(y, m, d) == [null |-> FALSE, date |-> Date(y, m, d)]

\* '%Y-%m-%d' and '%d/%m/%Y': the specifiers and the literals around them
FormatYmd == [specifiers |-> <<"Y", "m", "d">>, literals |-> <<<<>>, <<"-">>, <<"-">>, <<>>>>]
FormatDmy == [specifiers |-> <<"d", "m", "Y">>, literals |-> <<<<>>, <<"/">>, <<"/">>, <<>>>>]

\* the most digits a specifier reads
NumericWidth(spec) == IF spec = "Y" THEN 4 ELSE 2

\* the values a specifier accepts
SpecifierRange(spec, number) ==
    IF spec = "m" THEN number \in 1..12
    ELSE IF spec = "d" THEN number \in 1..31
    ELSE TRUE

LeapYear(y) == (y % 4 = 0 /\ y % 100 # 0) \/ y % 400 = 0

MonthDays(y, m) ==
    IF m = 2 THEN (IF LeapYear(y) THEN 29 ELSE 28)
    ELSE IF m \in {4, 6, 9, 11} THEN 30 ELSE 31

\* year, month and day name a day of the calendar
ValidDate(y, m, d) == m \in 1..12 /\ d \in 1..MonthDays(y, m)

RECURSIVE SkipSpaces(_, _)
SkipSpaces(s, pos) ==
    IF pos <= Len(s) /\ s[pos] = " " THEN SkipSpaces(s, pos + 1) ELSE pos

RECURSIVE ReadNumber(_, _, _, _)
\* read digits from pos, stopping before position end
ReadNumber(s, pos, end, acc) ==
    IF pos <= Len(s) /\ pos < end /\ s[pos] \in Digits
    THEN ReadNumber(s, pos + 1, end, 10 * acc + DigitVal[s[pos]])
    ELSE [number |-> acc, pos |-> pos]

MatchLiteral(s, pos, lit) ==
    pos + Len(lit) - 1 <= Len(s) /\ SubSeq(s, pos, pos + Len(lit) - 1) = lit

ParseFailure == [ok |-> FALSE, fields |-> <<>>]

RECURSIVE ParseFrom(_, _, _, _, _)
\* match the i-th literal of the format at pos, then read the i-th specifier
ParseFrom(s, pos, fmt, i, fields) ==
    IF ~MatchLiteral(s, pos, fmt.literals[i]) THEN ParseFailure
    ELSE LET p == pos + Len(fmt.literals[i])
         IN  IF i > Len(fmt.specifiers)
             THEN IF SkipSpaces(s, p) = Len(s) + 1
                  THEN [ok |-> TRUE, fields |-> fields]
                  ELSE ParseFailure
             ELSE LET spec == fmt.specifiers[i]
                      n == ReadNumber(s, p, p + NumericWidth(spec), 0)
                  IN  IF n.pos = p \/ ~SpecifierRange(spec, n.number) THEN ParseFailure
                      ELSE ParseFrom(s, n.pos, fmt, i + 1, (spec :> n.number) @@ fields)

\* CAST(TRY_STRPTIME(s, fmt) AS DATE): NULL where STRPTIME would raise
TRY_STRPTIME(s, fmt) ==
    LET r == ParseFrom(s, SkipSpaces(s, 1), fmt, 1, <<>>)
    IN  IF r.ok /\ ValidDate(r.fields["Y"], r.fields["m"], r.fields["d"])
        THEN DateVal(r.fields["Y"], r.fields["m"], r.fields["d"])
        ELSE NullDate

\* COALESCE(a, b)
COALESCE(a, b) == IF a.null THEN b ELSE a

\* variant: the first format only
get_date_expression_primary(col) == TRY_STRPTIME(col, FormatYmd)

get_date_expression(col) ==
    COALESCE(TRY_STRPTIME(col, FormatYmd), TRY_STRPTIME(col, FormatDmy))

\* the texts of a date column: year, month and day texts, padded or not, in
\* either order with either separator, bare or with a space or a letter around
YearTexts == {<<"2", "0", "1", "6">>, <<"2", "0", "1", "5">>, <<"1", "6">>}
MonthTexts == {<<"0", "2">>, <<"2">>, <<"1", "2">>, <<"1", "3">>, <<"0", "0">>}
DayTexts == {<<"0", "5">>, <<"5">>, <<"2", "9">>, <<"3", "0">>, <<"3", "2">>}

DateTexts ==
    {pre \o a \o <<sep>> \o mo \o <<sep>> \o b \o post :
        pre \in {<<>>, <<" ">>}, post \in {<<>>, <<" ">>, <<"x">>}, sep \in {"-", "/"},
        mo \in MonthTexts,
        a \in YearTexts \cup DayTexts, b \in YearTexts \cup DayTexts}
    \cup {<<>>, <<"x">>}

\* the date expression applied to one value of a date column
normalize_date ==
    /\ ingPc = "date"
    /\ date_out' = get_date_expression(date_in)
    /\ ingPc' = "date_done"
    /\ UNCHANGED <<date_in, csv, ducklake, ingLog, created, runs, notIngVars>>

InitDates ==
    /\ date_in \in DateTexts
    /\ date_out = NullDate
    /\ ingPc = "date"
    /\ csv = <<>> /\ ducklake = <<>> /\ ingLog = <<>> /\ created = {} /\ runs = <<>>
    /\ FeedbackIdle /\ ViewsIdle /\ AggIdle /\ QueriesIdle /\ CityIdle /\ GoldIdle /\ DashIdle

NextDates == normalize_date

SpecDates == InitDates /\ [][NextDates]_vars

-----------------------------------------------------------------------------
(* Claims about date normalization, checked under SpecDates.  The formats   *)
(* are described here by the shape of the text, not by the parser.          *)

AllDigits(t) == \A i \in DOMAIN t : t[i] \in Digits

RECURSIVE NumberOf(_)
\* the number a text of digits writes
NumberOf(t) ==
    IF t = <<>> THEN 0 ELSE 10 * NumberOf(SubSeq(t, 1, Len(t) - 1)) + DigitVal[t[Len(t)]]

\* the calendar date of year y, month m, day d, if there is one
CalendarDate(y, m, d) == IF ValidDate(y, m, d) THEN DateVal(y, m, d) ELSE NullDate

\* the text is four digits, '-', two digits, '-', two digits
InYmdFormat(s) ==
    /\ Len(s) = 10 /\ s[5] = "-" /\ s[8] = "-"
    /\ AllDigits(SubSeq(s, 1, 4)) /\ AllDigits(SubSeq(s, 6, 7)) /\ AllDigits(SubSeq(s, 9, 10))

\* the text is two digits, '/', two digits, '/', four digits
InDmyFormat(s) ==
    /\ Len(s) = 10 /\ s[3] = "/" /\ s[6] = "/"
    /\ AllDigits(SubSeq(s, 1, 2)) /\ AllDigits(SubSeq(s, 4, 5)) /\ AllDigits(SubSeq(s, 7, 10))

\* C16 as stated: a text in YYYY-MM-DD or DD/MM/YYYY format becomes the date it
\* denotes, every other text becomes NULL
ClaimC16 ==
    ingPc = "date_done" =>
        date_out =
            IF InYmdFormat(date_in)
            THEN CalendarDate(NumberOf(SubSeq(date_in, 1, 4)), NumberOf(SubSeq(date_in, 6, 7)),
                              NumberOf(SubSeq(date_in, 9, 10)))
            ELSE IF InDmyFormat(date_in)
            THEN CalendarDate(NumberOf(SubSeq(date_in, 7, 10)), NumberOf(SubSeq(date_in, 4, 5)),
                              NumberOf(SubSeq(date_in, 1, 2)))
            ELSE NullDate

\* the text without its leading and trailing spaces
Trimmed(s) ==
    LET inner == {i \in DOMAIN s : s[i] # " "}
    IN  IF inner = {} THEN <<>>
        ELSE SubSeq(s, CHOOSE i \in inner : \A j \in inner : i <= j,
                       CHOOSE i \in inner : \A j \in inner : j <= i)

\* the ways to read text s as three runs of digits, of at most w1, w2 and w3
\* digits, with the separator sep between them
ThreeParts(s, sep, w1, w2, w3) ==
    {p \in {<<SubSeq(s, 1, i - 1), SubSeq(s, i + 1, j - 1), SubSeq(s, j + 1, Len(s))>> :
               i \in {k \in DOMAIN s : s[k] = sep}, j \in {k \in DOMAIN s : s[k] = sep}} :
        /\ \A k \in 1..3 : p[k] # <<>> /\ AllDigits(p[k])
        /\ Len(p[1]) <= w1 /\ Len(p[2]) <= w2 /\ Len(p[3]) <= w3
        /\ p[1] \o <<sep>> \o p[2] \o <<sep>> \o p[3] = s}

\* C16, amended: a text that, spaces around it aside, is year-month-day with
\* '-' or day/month/year with '/', the year of one to four digits and month
\* and day of one or two, becomes the calendar date of those numbers, or NULL
\* when there is no such date; every other text becomes NULL
TheoremC16 ==
    ingPc = "date_done" =>
        LET ymd == ThreeParts(Trimmed(date_in), "-", 4, 2, 2)
            dmy == ThreeParts(Trimmed(date_in), "/", 2, 2, 4)
        IN  /\ \A p \in ymd :
                  date_out = CalendarDate(NumberOf(p[1]), NumberOf(p[2]), NumberOf(p[3]))
            /\ \A p \in dmy :
                  date_out = CalendarDate(NumberOf(p[3]), NumberOf(p[2]), NumberOf(p[1]))
            /\ (ymd = {} /\ dmy = {}) => date_out = NullDate

\* an unpadded day/month/year text, in neither ten-character format, became a date
WitnessC16 ==
    /\ ingPc = "date_done"
    /\ ~InYmdFormat(date_in) /\ ~InDmyFormat(date_in)
    /\ ThreeParts(Trimmed(date_in), "/", 2, 2, 4) # {}
    /\ ~date_out.null

-----------------------------------------------------------------------------
(* The ingestion stage, CreateLake.py's main block (full build, no          *)
(* sampling).  A file is the sequence of its data rows; a lake table is the *)
(* sequence of the rows inserted into it.                                   *)

MaxRuns == 2          \* runs of the stage
MaxCsvRows == 2       \* data rows of an input file
MaxMissing == 1       \* input files that may go missing

\* the keys of FILES, in the order of the dictionary
FILES == <<"train", "items", "stores", "oil", "holidays", "transactions">>

\* the tables in the order load_data creates them, each with the key of its file
LoadOrder ==
    <<[table |-> "items", file |-> "items"],
      [table |-> "stores", file |-> "stores"],
      [table |-> "oil", file |-> "oil"],
      [table |-> "holidays_events", file |-> "holidays"],
      [table |-> "transactions", file |-> "transactions"],
      [table |-> "train", file |-> "train"]>>

\* read_csv_auto: the rows of an input file of n data rows
CsvRows(file, n) == [i \in 1..n |-> [file |-> file, line |-> i]]

\* variant: only the two dimension files are checked
MissingDimensionFiles(files) ==
    SelectSeq(<<"items", "stores">>, LAMBDA f : f \notin DOMAIN files)

\* the keys of FILES whose path does not exist, in dictionary order
MissingFiles(files) == SelectSeq(FILES, LAMBDA f : f \notin DOMAIN files)

\* variant: CREATE TABLE IF NOT EXISTS, which keeps the rows of an existing table
CreateIfNotExists(db, t) == IF t \in DOMAIN db THEN db ELSE (t :> <<>>) @@ db

\* CREATE OR REPLACE TABLE t AS SELECT ... WHERE 1=0
CreateOrReplaceEmpty(db, t) == (t :> <<>>) @@ db

\* INSERT INTO t SELECT ...
InsertInto(db, t, rows) == [db EXCEPT ![t] = @ \o rows]

\* shutil.rmtree(OUTPUT_DIR) succeeds, or there is no old directory
init_lake ==
    /\ ingPc = "idle" /\ Len(runs) < MaxRuns
    /\ ducklake' = <<>>
    /\ ingLog' = (IF Len(runs) > 0 THEN <<[msg |-> "Cleaning old directory", file |-> ""]>>
                  ELSE <<>>)
    /\ created' = {}
    /\ ingPc' = "load_data"
    /\ UNCHANGED <<date_in, date_out, csv, runs, notIngVars>>

\* shutil.rmtree raises: the warning is printed and the old lake is attached
init_lake_kept ==
    /\ ingPc = "idle" /\ Len(runs) < MaxRuns
    /\ Len(runs) > 0
    /\ ingLog' = <<[msg |-> "Cleaning old directory", file |-> ""],
                   [msg |-> "Warning: Could not delete old folder", file |-> ""]>>
    /\ created' = {}
    /\ ingPc' = "load_data"
    /\ UNCHANGED <<date_in, date_out, csv, ducklake, runs, notIngVars>>

\* load_data, the existence check: the first missing file is reported and
\* load_data returns
load_data_check ==
    /\ ingPc = "load_data"
    /\ LET missing == MissingFiles(csv)
       IN  IF missing # <<>>
           THEN /\ ingLog' = Append(ingLog, [msg |-> "ERROR: File not found", file |-> missing[1]])
                /\ ingPc' = "verify_lake"
           ELSE /\ ingLog' = ingLog
                /\ ingPc' = "load_1"
    /\ UNCHANGED <<date_in, date_out, csv, ducklake, created, runs, notIngVars>>

LoadPc(i) ==
    IF i = 1 THEN "load_1" ELSE IF i = 2 THEN "load_2" ELSE IF i = 3 THEN "load_3"
    ELSE IF i = 4 THEN "load_4" ELSE IF i = 5 THEN "load_5" ELSE "load_6"

\* load_data, the i-th table: created empty, then filled from its file;
\* read_csv_auto raises when the file does not exist
load_table(i) ==
    /\ ingPc = LoadPc(i)
    /\ LET t == LoadOrder[i].table
           f == LoadOrder[i].file
       IN  IF f \in DOMAIN csv
           THEN /\ ducklake' = InsertInto(CreateOrReplaceEmpty(ducklake, t), t, csv[f])
                /\ created' = created \cup {t}
                /\ ingPc' = (IF i < Len(LoadOrder) THEN LoadPc(i + 1) ELSE "verify_lake")
                /\ ingLog' = ingLog
           ELSE /\ ingLog' = Append(ingLog, [msg |-> "ERROR", file |-> f])
                /\ ingPc' = "finally"
                /\ UNCHANGED <<ducklake, created>>
    /\ UNCHANGED <<date_in, date_out, csv, runs, notIngVars>>

\* verify_lake: SELECT COUNT(*) FROM train raises when the table does not
\* exist; the except clause prints the error
verify_lake ==
    /\ ingPc = "verify_lake"
    /\ ingLog' = Append(ingLog, IF "train" \in DOMAIN ducklake
                                THEN [msg |-> "Total rows in 'train'", file |-> ""]
                                ELSE [msg |-> "ERROR", file |-> ""])
    /\ ingPc' = "finally"
    /\ UNCHANGED <<date_in, date_out, csv, ducklake, created, runs, notIngVars>>

\* finally: con.close()
ingest_finally ==
    /\ ingPc = "finally"
    /\ runs' = Append(runs, [csv |-> csv, ducklake |-> ducklake, created |-> created,
                             log |-> ingLog])
    /\ ingPc' = "idle"
    /\ UNCHANGED <<date_in, date_out, csv, ducklake, ingLog, created, notIngVars>>

\* between runs an input file is deleted
RemoveFile(f) ==
    /\ ingPc = "idle"
    /\ f \in DOMAIN csv
    /\ Len(MissingFiles(csv)) < MaxMissing
    /\ csv' = [g \in DOMAIN csv \ {f} |-> csv[g]]
    /\ UNCHANGED <<date_in, date_out, ducklake, ingPc, ingLog, created, runs, notIngVars>>

InitIngest ==
    /\ csv \in {[f \in Range(FILES) |-> CsvRows(f, n)] : n \in 1..MaxCsvRows}
    /\ ducklake = <<>>
    /\ ingPc = "idle"
    /\ ingLog = <<>>
    /\ created = {}
    /\ runs = <<>>
    /\ date_in = <<>> /\ date_out = NullDate
    /\ FeedbackIdle /\ ViewsIdle /\ AggIdle /\ QueriesIdle /\ CityIdle /\ GoldIdle /\ DashIdle

NextIngest ==
    \/ init_lake
    \/ init_lake_kept
    \/ load_data_check
    \/ \E i \in DOMAIN LoadOrder : load_table(i)
    \/ verify_lake
    \/ ingest_finally
    \/ \E f \in Range(FILES) : RemoveFile(f)

SpecIngest == InitIngest /\ [][NextIngest]_vars

-----------------------------------------------------------------------------
(* Claims about the ingestion stage, checked under SpecIngest *)

AbsentFiles == Range(FILES) \ DOMAIN csv

Reported(log, files) ==
    \E k \in DOMAIN log : log[k].msg = "ERROR: File not found" /\ log[k].file \in files

\* the lake the run started from: the one the previous run ended with
LakeBefore == IF runs = <<>> THEN <<>> ELSE runs[Len(runs)].ducklake

\* C17: in a run with one of the six input files absent no lake table is
\* created (the lake is empty, or is the old one where the old directory
\* could not be deleted), and once load_data has returned the missing file
\* has been reported
TheoremC17 ==
    (ingPc # "idle" /\ AbsentFiles # {}) =>
        /\ created = {}
        /\ ducklake = <<>> \/ ducklake = LakeBefore
        /\ ingPc \in {"verify_lake", "finally"} => Reported(ingLog, AbsentFiles)

\* a run, after a complete one, that ends with train.csv absent and reported
WitnessC17 ==
    /\ ingPc = "finally"
    /\ AbsentFiles = {"train"}
    /\ Reported(ingLog, {"train"})
    /\ Len(runs) = 1 /\ runs[1].created = LakeTables

\* C18: two runs over the same six input files end with the same lake: every
\* table is created by the later run and holds the rows of its file once
TheoremC18 ==
    \A i, j \in DOMAIN runs :
        (i < j /\ runs[i].csv = runs[j].csv /\ DOMAIN runs[j].csv = Range(FILES)) =>
            /\ runs[j].created = LakeTables
            /\ runs[j].ducklake = runs[i].ducklake
            /\ \A k \in DOMAIN LoadOrder :
                  runs[j].ducklake[LoadOrder[k].table] = runs[j].csv[LoadOrder[k].file]

\* a second run over the same files that could not delete the old directory
\* and so loaded into the lake of the first
WitnessC18 ==
    /\ Len(runs) = 2
    /\ runs[1].csv = runs[2].csv /\ DOMAIN runs[2].csv = Range(FILES)
    /\ \E k \in DOMAIN runs[2].log : runs[2].log[k].msg = "Warning: Could not delete old folder"
    /\ Len(runs[2].ducklake["train"]) = MaxCsvRows

-----------------------------------------------------------------------------
(* The gold database at the level of its tables' contents.                  *)
(* A table is [cols, rows]: the number of its columns and the sequence of   *)
(* its rows.  Table names are compared through their characters.            *)

\* the characters of the table names
NameText ==
    ("q1_pareto_analysis" :>
        <<"q", "1", "_", "p", "a", "r", "e", "t", "o", "_", "a", "n", "a", "l", "y", "s", "i", "s">>) @@
    ("q2_perishable_growth" :>
        <<"q", "2", "_", "p", "e", "r", "i", "s", "h", "a", "b", "l", "e", "_", "g", "r", "o", "w", "t", "h">>) @@
    ("q3_top_products_city" :>
        <<"q", "3", "_", "t", "o", "p", "_", "p", "r", "o", "d", "u", "c", "t", "s", "_", "c", "i", "t", "y">>) @@
    ("q4_basket_size_analysis" :>
        <<"q", "4", "_", "b", "a", "s", "k", "e", "t", "_", "s", "i", "z", "e", "_", "a", "n", "a", "l", "y", "s", "i", "s">>) @@
    ("q5_holiday_impact" :>
        <<"q", "5", "_", "h", "o", "l", "i", "d", "a", "y", "_", "i", "m", "p", "a", "c", "t">>) @@
    ("q6_geo_cube" :>
        <<"q", "6", "_", "g", "e", "o", "_", "c", "u", "b", "e">>) @@
    ("q7_sales_monthly_pivot" :>
        <<"q", "7", "_", "s", "a", "l", "e", "s", "_", "m", "o", "n", "t", "h", "l", "y", "_", "p", "i", "v", "o", "t">>) @@
    ("q8_oil_sales" :>
        <<"q", "8", "_", "o", "i", "l", "_", "s", "a", "l", "e", "s">>) @@
    ("sample_train" :>
        <<"s", "a", "m", "p", "l", "e", "_", "t", "r", "a", "i", "n">>) @@
    ("sample_items" :>
        <<"s", "a", "m", "p", "l", "e", "_", "i", "t", "e", "m", "s">>) @@
    ("sample_stores" :>
        <<"s", "a", "m", "p", "l", "e", "_", "s", "t", "o", "r", "e", "s">>) @@
    ("sample_transactions" :>
        <<"s", "a", "m", "p", "l", "e", "_", "t", "r", "a", "n", "s", "a", "c", "t", "i", "o", "n", "s">>) @@
    ("sample_oil" :>
        <<"s", "a", "m", "p", "l", "e", "_", "o", "i", "l">>) @@
    ("sample_holidays_events" :>
        <<"s", "a", "m", "p", "l", "e", "_", "h", "o", "l", "i", "d", "a", "y", "s", "_", "e", "v", "e", "n", "t", "s">>) @@
    ("gold_inventory" :>
        <<"g", "o", "l", "d", "_", "i", "n", "v", "e", "n", "t", "o", "r", "y">>) @@
    ("feedback" :>
        <<"f", "e", "e", "d", "b", "a", "c", "k">>) @@
    ("sqlite_sequence" :>
        <<"s", "q", "l", "i", "t", "e", "_", "s", "e", "q", "u", "e", "n", "c", "e">>) @@
    ("q0_legacy" :>
        <<"q", "0", "_", "l", "e", "g", "a", "c", "y">>) @@
    ("samples" :>
        <<"s", "a", "m", "p", "l", "e", "s">>) @@
    ("train" :>
        <<"t", "r", "a", "i", "n">>) @@
    ("items" :>
        <<"i", "t", "e", "m", "s">>) @@
    ("stores" :>
        <<"s", "t", "o", "r", "e", "s">>) @@
    ("transactions" :>
        <<"t", "r", "a", "n", "s", "a", "c", "t", "i", "o", "n", "s">>) @@
    ("oil" :>
        <<"o", "i", "l">>) @@
    ("holidays_events" :>
        <<"h", "o", "l", "i", "d", "a", "y", "s", "_", "e", "v", "e", "n", "t", "s">>)

\* the code points of the characters of table names
CharCode ==
    ("0" :> 48) @@ ("1" :> 49) @@ ("2" :> 50) @@ ("3" :> 51) @@ ("4" :> 52) @@
    ("5" :> 53) @@ ("6" :> 54) @@ ("7" :> 55) @@ ("8" :> 56) @@ ("9" :> 57) @@
    ("_" :> 95) @@ ("a" :> 97) @@ ("b" :> 98) @@ ("c" :> 99) @@ ("d" :> 100) @@
    ("e" :> 101) @@ ("f" :> 102) @@ ("g" :> 103) @@ ("h" :> 104) @@ ("i" :> 105) @@
    ("j" :> 106) @@ ("k" :> 107) @@ ("l" :> 108) @@ ("m" :> 109) @@ ("n" :> 110) @@
    ("o" :> 111) @@ ("p" :> 112) @@ ("q" :> 113) @@ ("r" :> 114) @@ ("s" :> 115) @@
    ("t" :> 116) @@ ("u" :> 117) @@ ("v" :> 118) @@ ("w" :> 119) @@ ("x" :> 120) @@
    ("y" :> 121) @@ ("z" :> 122)

\* str.startswith(prefix)
StartsWith(text, prefix) ==
    Len(prefix) <= Len(text) /\ SubSeq(text, 1, Len(prefix)) = prefix

\* the sort key of a name under ORDER BY name
NameKey(name) == [i \in DOMAIN NameText[name] |-> CharCode[NameText[name][i]]]

Table(cols, rows) == [cols |-> cols, rows |-> rows]

\* variant: the table is written to a database file created anew
CreateInNewFile(db, name, cols, rows) == (name :> Table(cols, rows))

\* CREATE OR REPLACE TABLE gold.name AS ...
CreateOrReplace(db, name, cols, rows) == (name :> Table(cols, rows)) @@ db

RECURSIVE SeqOf(_)
\* the rows S as a table without ORDER BY: in some order, which no claim reads
SeqOf(S) ==
    IF S = {} THEN <<>>
    ELSE LET x == CHOOSE y \in S : TRUE
         IN  <<x>> \o SeqOf(S \ {x})

\* variant: the inventory table is created only when there is none
empty_inventory_if_missing(db) ==
    IF "gold_inventory" \in DOMAIN db THEN db
    ELSE CreateOrReplace(db, "gold_inventory", 3, <<>>)

\* CREATE OR REPLACE TABLE gold.gold_inventory AS SELECT ... WHERE FALSE
empty_inventory(db) == CreateOrReplace(db, "gold_inventory", 3, <<>>)

\* SELECT name FROM main.sqlite_master WHERE type='table': the tables of the
\* attached databases, the gold database and the lake
sqlite_master(db) == DOMAIN db \cup LakeTables

\* tname.startswith("q") or tname.startswith("sample_")
project_table(tname) ==
    \/ StartsWith(NameText[tname], <<"q">>)
    \/ StartsWith(NameText[tname], <<"s", "a", "m", "p", "l", "e", "_">>)

\* the names the loop does not skip, in the order of ORDER BY name
inventory_names(db) ==
    LET N == {t \in sqlite_master(db) : project_table(t)}
    IN  CHOOSE o \in SortedSeqs(N, [t \in N |-> NameKey(t)]) : TRUE

\* the loop's queries fail on a listed name that is no table of the gold database
inventory_raises(db) == \E t \in Range(inventory_names(db)) : t \notin DOMAIN db

\* the row the loop inserts for table tname: SELECT COUNT(*) FROM gold.tname and
\* SELECT COUNT(*) FROM pragma_table_info('gold.tname')
inventory_row(db, tname) ==
    [table_name |-> tname, row_count |-> Len(db[tname].rows), col_count |-> db[tname].cols]

\* create_gold_inventory(con), when no query of the loop fails
gold_inventory(db) ==
    LET e == empty_inventory(db)
        names == inventory_names(e)
    IN  [e EXCEPT !["gold_inventory"].rows =
            @ \o [i \in DOMAIN names |-> inventory_row(e, names[i])]]

-----------------------------------------------------------------------------
(* Q7: seasonality pivot, process_question_7_pivot *)

\* CTE sales_prep restricted to one year and month
sales_prep(tr, y, m) == {i \in Rows(tr) : tr[i].date.y = y /\ tr[i].date.m = m}

\* ROUND(SUM(unit_sales), 2) of a pivot cell, in hundredths; NULL for a month
\* without a fact row
pivot_cell(tr, y, m) ==
    IF sales_prep(tr, y, m) = {} THEN Null
    ELSE Val(100 * SumOver(sales_prep(tr, y, m), UnitSales(tr)))

\* PIVOT sales_prep ON month IN (1, ..., 12) ... GROUP BY year
Q7Rows(tr) ==
    {[year |-> y, months |-> [m \in 1..12 |-> pivot_cell(tr, y, m)]] :
        y \in {tr[i].date.y : i \in Rows(tr)}}

\* ORDER BY year
Q7Tables(tr) ==
    LET R == Q7Rows(tr)
    IN  SortedSeqs(R, [r \in R |-> <<r.year>>])

-----------------------------------------------------------------------------
(* Q8: oil price against sales, process_question_8_oil *)

Oil(date, price) == [date |-> date, dcoilwtico |-> price]

\* lake table oil: prices in hundredths, NULL on a day without a quotation
OilTable ==
    {Oil(Date(2016, 1, 1), Null), Oil(Date(2016, 1, 2), Val(3700)),
     Oil(Date(2016, 1, 3), Val(3600)), Oil(Date(2016, 2, 1), Null)}

\* DATE_TRUNC('month', date)
DATE_TRUNC_month(date) == [y |-> date.y, m |-> date.m]

\* CTE monthly_sales
monthly_sales(tr) ==
    {[m_date |-> md,
      total_sales |-> SumOver({i \in Rows(tr) : DATE_TRUNC_month(tr[i].date) = md},
                              UnitSales(tr))] :
        md \in {DATE_TRUNC_month(tr[i].date) : i \in Rows(tr)}}

\* CTE monthly_oil
monthly_oil(oil) ==
    {[m_date |-> md,
      avg_oil_price |-> LET G == {o \in oil : DATE_TRUNC_month(o.date) = md}
                        IN  AvgOf(G, [o \in G |-> o.dcoilwtico])] :
        md \in {DATE_TRUNC_month(o.date) : o \in oil}}

\* monthly_sales s JOIN monthly_oil o ON s.m_date = o.m_date
Q8Rows(tr, oil) ==
    {[month |-> p[1].m_date, total_sales |-> p[1].total_sales,
      avg_oil_price |-> p[2].avg_oil_price] :
        p \in {x \in monthly_sales(tr) \X monthly_oil(oil) : x[1].m_date = x[2].m_date}}

\* ORDER BY s.m_date
Q8Tables(tr, oil) ==
    LET R == Q8Rows(tr, oil)
    IN  SortedSeqs(R, [r \in R |-> <<r.month.y, r.month.m>>])

-----------------------------------------------------------------------------
(* The aggregation stage run twice on one lake, at the level of the contents *)
(* of the gold tables: the main block of stage_e_analysis.py                 *)

MaxFactsRerun == 2    \* fact rows of the lake of the repeated run
SampleRows == 4       \* rows of a raw sample; stands for the 300 of USING SAMPLE 300

KeysRerun ==
    {[date |-> Date(2016, 1, 1), store_nbr |-> 1, item_nbr |-> 1],
     [date |-> Date(2016, 1, 2), store_nbr |-> 2, item_nbr |-> 5],
     [date |-> Date(2015, 1, 1), store_nbr |-> 1, item_nbr |-> 5]}

SalesRerun == {1, 2}

\* lake tables transactions and holidays_events of the repeated run
TransactionsRerun ==
    {[date |-> Date(2016, 1, 1), store_nbr |-> 1, transactions |-> 2],
     [date |-> Date(2016, 1, 2), store_nbr |-> 2, transactions |-> 1]}

HolidaysRerun ==
    {Holiday(Date(2016, 1, 1), "Holiday", "National", "Ecuador", FALSE),
     Holiday(Date(2016, 1, 2), "Holiday", "Local", "Guayaquil", FALSE)}

\* the gold databases the stage may find: none, one holding user feedback, one
\* holding the tables of a run on an earlier lake
GoldBefore ==
    {<<>>,
     ("feedback" :> Table(6, <<[id |-> 1, created_at |-> 0, user_name |-> "ann",
                                page |-> "General", rating |-> 5, comment |-> "ok"]>>)),
     ("feedback" :> Table(6, <<>>)) @@
     ("q1_pareto_analysis" :> Table(5, <<[item_nbr |-> 3]>>)) @@
     ("sample_items" :> Table(3, <<[item_nbr |-> 3]>>)) @@
     ("gold_inventory" :> Table(3, <<[table_name |-> "q1_pareto_analysis",
                                      row_count |-> 1, col_count |-> 5]>>))}

\* the number of columns of the SELECT list of query i
QuestionCols(i) == <<5, 5, 4, 5, 5, 4, 13, 3>>[i]

\* the tables query i may write
QuestionTables(i) ==
    CASE i = 1 -> Q1Tables(train)
      [] i = 2 -> Q2Tables(train)
      [] i = 3 -> Q3Tables(train)
      [] i = 4 -> Q4Tables(train, transactions)
      [] i = 5 -> Q5Tables(train, holidays_events)
      [] i = 6 -> Q6Tables(train)
      [] i = 7 -> Q7Tables(train)
      [] OTHER -> Q8Tables(train, OilTable)

\* the rows of lake table t
LakeRows(t) ==
    CASE t = "train" -> Range(train)
      [] t = "items" -> {[item_nbr |-> k, family |-> ItemsTable[k].family,
                          perishable |-> ItemsTable[k].perishable] : k \in DOMAIN ItemsTable}
      [] t = "stores" -> {[store_nbr |-> k, city |-> StoresTable[k].city,
                           state |-> StoresTable[k].state] : k \in DOMAIN StoresTable}
      [] t = "transactions" -> transactions
      [] t = "oil" -> OilTable
      [] OTHER -> holidays_events

\* the columns of lake table t: those of the SELECT list that creates train, and
\* for the other tables the columns of the file that the queries read
LakeCols(t) ==
    CASE t = "train" -> 6
      [] t = "items" -> 3
      [] t = "stores" -> 3
      [] t = "transactions" -> 3
      [] t = "oil" -> 2
      [] OTHER -> 5

\* SELECT * FROM t USING SAMPLE 300: the whole table when it has no more rows than
\* that, and otherwise that many rows drawn at random, with no seed given
Samples(S) ==
    IF Cardinality(S) <= SampleRows THEN {S}
    ELSE {X \in SUBSET S : Cardinality(X) = SampleRows}

\* the call of init_duckdb_with_sqlite; the stage is run twice
gold_start ==
    /\ goldPc = "idle"
    /\ Len(goldRuns) < 2
    /\ goldPc' = "q1"
    /\ goldLog' = <<>>
    /\ UNCHANGED <<goldDb, goldRuns, qVars, cityVars, notGoldVars>>

QuestionPc(i) == <<"q1", "q2", "q3", "q4", "q5", "q6", "q7", "q8">>[i]

\* process_question_1(con) .. process_question_8_oil(con): the table is replaced;
\* process_question_1 then raises ZeroDivisionError when its table is empty, which
\* the except clause of the main block reports.  Of the orders ORDER BY permits
\* for tied rows one is held here: the tables are compared as sets of rows, and the
\* specifications of the single queries hold every order
gold_question(i) ==
    /\ goldPc = QuestionPc(i)
    /\ LET t == CHOOSE o \in QuestionTables(i) : TRUE IN
          /\ goldDb' = CreateOrReplace(goldDb, QTables[i], QuestionCols(i), t)
          /\ IF i = 1 /\ t = <<>>
             THEN /\ goldPc' = "finally"
                  /\ goldLog' = Append(goldLog, "Error during execution")
             ELSE /\ goldPc' = (IF i < 8 THEN QuestionPc(i + 1) ELSE "save_raw_samples")
                  /\ goldLog' = Append(goldLog, QTables[i])
    /\ UNCHANGED <<goldRuns, qVars, cityVars, notGoldVars>>

RECURSIVE SampleAll(_, _)
\* the gold databases the loop of save_raw_samples may leave, from table i on
SampleAll(db, i) ==
    IF i > Len(SampleOrder) THEN {db}
    ELSE UNION {SampleAll(CreateOrReplace(db, SampleName(SampleOrder[i]),
                                          LakeCols(SampleOrder[i]), SeqOf(X)), i + 1) :
                   X \in Samples(LakeRows(SampleOrder[i]))}

\* save_raw_samples(con)
gold_save_raw_samples ==
    /\ goldPc = "save_raw_samples"
    /\ goldDb' \in SampleAll(goldDb, 1)
    /\ goldPc' = "create_gold_inventory"
    /\ goldLog' = Append(goldLog, "samples")
    /\ UNCHANGED <<goldRuns, qVars, cityVars, notGoldVars>>

\* create_gold_inventory(con), then verify_sqlite_tables_direct() and
\* print_gold_catalog(con), which only read
gold_create_inventory ==
    /\ goldPc = "create_gold_inventory"
    /\ IF inventory_raises(empty_inventory(goldDb))
       THEN /\ goldDb' = empty_inventory(goldDb)
            /\ goldLog' = Append(goldLog, "Error during execution")
       ELSE /\ goldDb' = gold_inventory(goldDb)
            /\ goldLog' = Append(goldLog, "gold_inventory")
    /\ goldPc' = "finally"
    /\ UNCHANGED <<goldRuns, qVars, cityVars, notGoldVars>>

\* the finally clause: con.close() and vacuum_sqlite_database(), which rebuilds
\* the file and leaves the rows of every table as they are; the state of the gold
\* database is recorded as the result of the run
gold_finally ==
    /\ goldPc = "finally"
    /\ goldRuns' = Append(goldRuns, [db |-> goldDb, log |-> goldLog])
    /\ goldPc' = "idle"
    /\ UNCHANGED <<goldDb, goldLog, qVars, cityVars, notGoldVars>>

InitRerun ==
    /\ train \in FactTables(KeysRerun, SalesRerun, MaxFactsRerun)
    /\ transactions = TransactionsRerun
    /\ holidays_events = HolidaysRerun
    /\ q1 = <<>> /\ q2 = <<>> /\ qDone = {}
    /\ q3 = <<>> /\ q4 = <<>> /\ q5 = <<>> /\ q6 = <<>>
    /\ goldDb \in GoldBefore
    /\ goldPc = "idle"
    /\ goldLog = <<>>
    /\ goldRuns = <<>>
    /\ FeedbackIdle /\ ViewsIdle /\ AggIdle /\ IngestIdle /\ DashIdle

NextRerun ==
    \/ gold_start
    \/ \E i \in 1..8 : gold_question(i)
    \/ gold_save_raw_samples
    \/ gold_create_inventory
    \/ gold_finally

SpecRerun == InitRerun /\ [][NextRerun]_vars

\* the tables the stage writes
StageTables ==
    Range(QTables) \cup {SampleName(t) : t \in LakeTables} \cup {"gold_inventory"}

\* the rows of table t of gold database db, whatever their order
RowsOf(db, t) == IF t \in DOMAIN db THEN Range(db[t].rows) ELSE {}

\* C19: running the aggregation stage twice against an unchanged lake leaves every
\* table the stage writes with the same contents after the second run as after
\* the first, up to the order of tied rows.
ClaimC19 ==
    Len(goldRuns) = 2 =>
        \A t \in StageTables :
            /\ (t \in DOMAIN goldRuns[1].db) = (t \in DOMAIN goldRuns[2].db)
            /\ RowsOf(goldRuns[1].db, t) = RowsOf(goldRuns[2].db, t)

-----------------------------------------------------------------------------
(* The inventory stage on its own: create_gold_inventory *)

MaxInvRows == 1       \* rows of a table of the gold database the inventory stage finds

\* the tables the gold database may hold when the stage starts, with their
\* numbers of columns
InvCandidates ==
    ("q1_pareto_analysis" :> 5) @@ ("q0_legacy" :> 1) @@ ("sample_train" :> 6) @@
    ("samples" :> 2) @@ ("feedback" :> 6) @@ ("sqlite_sequence" :> 2) @@
    ("gold_inventory" :> 3)

\* n rows of table name; those of gold_inventory are left from an earlier run
InvRows(name, n) ==
    [i \in 1..n |->
        IF name = "gold_inventory"
        THEN [table_name |-> "q0_legacy", row_count |-> 7 + i, col_count |-> 1]
        ELSE [table |-> name, line |-> i]]

\* the gold databases the stage may find
InvDatabases ==
    UNION {{[t \in N |-> Table(InvCandidates[t], InvRows(t, n[t]))] :
               n \in [N -> 0..MaxInvRows]} : N \in SUBSET DOMAIN InvCandidates}

\* create_gold_inventory(con), called on a connection of its own
create_gold_inventory ==
    /\ goldPc = "idle"
    /\ IF inventory_raises(empty_inventory(goldDb))
       THEN /\ goldDb' = empty_inventory(goldDb)
            /\ goldLog' = Append(goldLog, "Error during execution")
       ELSE /\ goldDb' = gold_inventory(goldDb)
            /\ goldLog' = Append(goldLog, "gold_inventory")
    /\ goldPc' = "inventory_done"
    /\ UNCHANGED <<goldRuns, qVars, cityVars, notGoldVars>>

InitInventory ==
    /\ goldDb \in InvDatabases
    /\ goldPc = "idle"
    /\ goldLog = <<>>
    /\ goldRuns = <<>>
    /\ FeedbackIdle /\ ViewsIdle /\ AggIdle /\ QueriesIdle /\ CityIdle /\ IngestIdle /\ DashIdle

NextInventory == create_gold_inventory

SpecInventory == InitInventory /\ [][NextInventory]_vars

\* the names that start with 'q' or with 'sample_'
PrefixedNames ==
    Range(QTables) \cup {SampleName(t) : t \in LakeTables} \cup {"q0_legacy"}

\* the tables of the gold database with such a name
InventoriedTables == DOMAIN goldDb \cap PrefixedNames

InventoryRows == goldDb["gold_inventory"].rows

\* C20: after the inventory stage, gold_inventory holds exactly one row for each
\* table of the gold database whose name starts with 'q' or 'sample_', with that
\* table's current row and column counts, and no other row; with no such table the
\* inventory is empty, and the stage raises no error.
TheoremC20 ==
    goldPc = "inventory_done" =>
        /\ "Error during execution" \notin Range(goldLog)
        /\ "gold_inventory" \in DOMAIN goldDb
        /\ Len(InventoryRows) = Cardinality(InventoriedTables)
        /\ Range(InventoryRows) =
               {[table_name |-> t, row_count |-> Len(goldDb[t].rows),
                 col_count |-> goldDb[t].cols] : t \in InventoriedTables}

\* the stage has run on a database that holds feedback, a result table with a row,
\* an empty sample table and tables whose names only resemble the prefixes
WitnessC20 ==
    /\ goldPc = "inventory_done"
    /\ {"feedback", "q1_pareto_analysis", "sample_train", "samples", "sqlite_sequence"}
           \subseteq DOMAIN goldDb
    /\ Len(goldDb["q1_pareto_analysis"].rows) = 1
    /\ Len(goldDb["sample_train"].rows) = 0
    /\ Len(InventoryRows) = 2

-----------------------------------------------------------------------------
(* Degenerate inputs of the Pareto step *)

\* the fact table yields no item, or every item's total is zero
DegenerateQ1 ==
    \/ item_sales(train) = {}
    \/ grand_total(item_sales(train)) = 0

\* C21: the Pareto step completes without a division-by-zero error when every
\* item's total is zero (grand total 0) and when the fact table yields no item at
\* all (empty result table).
ClaimC21 == (Q1Ran /\ DegenerateQ1) => "q1_raised" \notin qDone

-----------------------------------------------------------------------------
(* Q5: the cities of the holiday-impact table *)

\* the cities with a non-transferred local holiday of their own on a day on which
\* they have sales
CitiesWithLocalHoliday == {c \in Cities : LocalDays(c) \cap CityDays(c) # {}}

\* C22: a city appears in the holiday-impact table if and only if at least one
\* non-transferred local holiday whose locale name equals that city falls on a
\* date for which the city has sales; a city without one is omitted rather than
\* listed with a zero or null local average.
TheoremC22 ==
    "q5" \in qDone =>
        /\ {q5[i].city : i \in DOMAIN q5} = CitiesWithLocalHoliday
        /\ Len(q5) = Cardinality(CitiesWithLocalHoliday)
        /\ \A i \in DOMAIN q5 : ~q5[i].local_holiday_avg.null

\* the table lists one city and omits another that has sales on a national holiday
\* and on the day of its own transferred local holiday
WitnessC22 ==
    /\ "q5" \in qDone
    /\ Len(q5) = 1
    /\ q5[1].city = "Guayaquil"
    /\ Date(2016, 1, 1) \in CityDays("Quito") \cap NationalDays
    /\ Holiday(Date(2016, 1, 1), "Holiday", "Local", "Quito", TRUE) \in holidays_events

-----------------------------------------------------------------------------
(* The dashboard at the level of single statements: every exec_sql and      *)
(* read_df is a step of its own, committed on its own connection, and the   *)
(* steps of two browser sessions interleave.  The gold database file holds  *)
(* the tables of the aggregation stage (goldDb) and the feedback table with *)
(* its sqlite_sequence row (feedback, fb_seq).                              *)

MaxSubmits == 3       \* feedback submissions of a run of the dashboard
MaxPasses == 1        \* delete passes started in a run of the dashboard

\* the gold databases the dashboard may be started on
DashGold ==
    {("q1_pareto_analysis" :> Table(5, <<[item_nbr |-> 1], [item_nbr |-> 2]>>)) @@
     ("sample_items" :> Table(3, <<[item_nbr |-> 1]>>)) @@
     ("gold_inventory" :> Table(3, <<[table_name |-> "q1_pareto_analysis", row_count |-> 2,
                                      col_count |-> 5],
                                     [table_name |-> "sample_items", row_count |-> 1,
                                      col_count |-> 3]>>)),
     ("q1_pareto_analysis" :> Table(5, <<>>)) @@
     ("gold_inventory" :> Table(3, <<[table_name |-> "q1_pareto_analysis", row_count |-> 0,
                                      col_count |-> 5]>>))}

\* the tables the views read
DashPages == {"q1_pareto_analysis", "sample_items", "gold_inventory"}

\* the database file: the tables of the aggregation stage and the feedback table
GoldFile == [tables |-> goldDb, fb |-> Db]

\* the statements of the feedback page
InsertStmt(created_at, user_name, page, rating, comment) ==
    [sql |-> "INSERT", created_at |-> created_at, user_name |-> user_name, page |-> page,
     rating |-> rating, comment |-> comment]

DeleteByIdStmt(id) == [sql |-> "DELETE WHERE id", id |-> id]
DeleteAllStmt == [sql |-> "DELETE"]
ResetSequenceStmt == [sql |-> "DELETE FROM sqlite_sequence"]

\* cur.execute(query, params) of a statement of the feedback page
Execute(db, q) ==
    CASE q.sql = "INSERT" ->
             SqlInsert(db, q.created_at, q.user_name, q.page, q.rating, q.comment)
      [] q.sql = "DELETE WHERE id" -> SqlDeleteById(db, q.id)
      [] q.sql = "DELETE" -> SqlDeleteAll(db)
      [] OTHER -> SqlResetSequence(db)

\* variant: the statement is committed to a database file created anew
exec_sql_new_file(file, q) == [tables |-> <<>>, fb |-> Execute(file.fb, q)]

\* exec_sql(query, params): the statement is executed and committed; each
\* statement of the dashboard names table feedback or its sqlite_sequence row
exec_sql(file, q) == [file EXCEPT !.fb = Execute(@, q)]

\* the database file after exec_sql(q)
Commit(q) ==
    LET file == exec_sql(GoldFile, q)
    IN  /\ goldDb' = file.tables
        /\ feedback' = file.fb.rows
        /\ fb_seq' = file.fb.seq

\* the values of a feedback row other than its id
Fields(r) ==
    [created_at |-> r.created_at, user_name |-> r.user_name, page |-> r.page,
     rating |-> r.rating, comment |-> r.comment]

Ready == [pc |-> "ready", delete_id |-> 0, all_data |-> <<>>, i |-> 0,
          survivors |-> {}, during |-> {}]

InPass(s) == sess[s].pc # "ready"

\* session s is between its read of the surviving rows and the first of its
\* re-insertions
InWindow(s) ==
    \/ sess[s].pc \in {"clear", "reset"}
    \/ sess[s].pc = "insert" /\ sess[s].i = 1

\* a view of a gold table: SELECT * FROM t through read_df, which writes nothing
DashView(s, t) ==
    /\ ~InPass(s)
    /\ lastView' = [page |-> t,
                    outcome |-> ViewOutcome(IF t \notin DOMAIN goldDb THEN "raise"
                                            ELSE IF goldDb[t].rows = <<>> THEN "empty"
                                            ELSE "rows")]
    /\ lastView' # lastView
    /\ UNCHANGED <<fbVars, goldStatus, cache, aggVars, qVars, cityVars, ingVars, goldVars,
                   dashVars>>

\* "Submit": exec_sql(INSERT ...), created_at by default.  The comment of the n-th
\* submission is n and each submission is made a second after the one before;
\* the sessions that are between their read and their re-insertions record it
DashSubmit(s, user_name, page, rating) ==
    /\ ~InPass(s)
    /\ serial < MaxSubmits
    /\ serial' = serial + 1
    /\ now' = now + 1
    /\ Commit(InsertStmt(now', user_name, page, rating, serial + 1))
    /\ sess' = [x \in Sessions |->
                   IF x # s /\ InWindow(x)
                   THEN [sess[x] EXCEPT !.during = @ \cup {serial + 1}]
                   ELSE sess[x]]
    /\ UNCHANGED <<admin, last, viewVars, aggVars, qVars, cityVars, ingVars,
                   goldPc, goldLog, goldRuns, done, conns>>

DashLogin(s, password_input) ==
    /\ ~InPass(s)
    /\ ~admin[s]
    /\ admin' = [admin EXCEPT ![s] = (password_input = admin_password)]
    /\ admin' # admin
    /\ UNCHANGED <<feedback, fb_seq, now, last, viewVars, aggVars, qVars, cityVars,
                   ingVars, goldVars, dashVars>>

PassesStarted == Len(done) + Cardinality({s \in Sessions : InPass(s)})

\* the pass of session s has ended; how, and what the feedback table then holds
EndPass(s, outcome, rows) ==
    Append(done, [s |-> s, outcome |-> outcome, delete_id |-> sess[s].delete_id,
                  survivors |-> sess[s].survivors, during |-> sess[s].during,
                  rows |-> rows])

\* "Delete Feedback #id": exec_sql("DELETE FROM feedback WHERE id = ?")
DeleteClick(s, delete_id) ==
    /\ ~InPass(s)
    /\ DeleteOffered(s)
    /\ delete_id \in Ids(feedback)
    /\ PassesStarted < MaxPasses
    /\ Commit(DeleteByIdStmt(delete_id))
    /\ sess' = [sess EXCEPT ![s] = [Ready EXCEPT !.pc = "select", !.delete_id = delete_id,
                                                 !.survivors = {Fields(r) : r \in feedback'}]]
    /\ UNCHANGED <<now, admin, last, viewVars, aggVars, qVars, cityVars, ingVars,
                   goldPc, goldLog, goldRuns, serial, done, conns>>

\* all_data = read_df("SELECT * FROM feedback ORDER BY created_at ASC")
PassSelect(s) ==
    /\ sess[s].pc = "select"
    /\ \E all_data \in SelectByCreatedAt(Db) :
          sess' = [sess EXCEPT ![s].all_data = all_data,
                               ![s].pc = IF all_data = <<>> THEN "reset_only" ELSE "clear"]
    /\ UNCHANGED <<fbVars, viewVars, aggVars, qVars, cityVars, ingVars, goldVars,
                   serial, done, conns>>

\* exec_sql("DELETE FROM feedback")
PassClear(s) ==
    /\ sess[s].pc = "clear"
    /\ Commit(DeleteAllStmt)
    /\ sess' = [sess EXCEPT ![s].pc = "reset"]
    /\ UNCHANGED <<now, admin, last, viewVars, aggVars, qVars, cityVars, ingVars,
                   goldPc, goldLog, goldRuns, serial, done, conns>>

\* exec_sql("DELETE FROM sqlite_sequence WHERE name='feedback'"), before the loop
PassReset(s) ==
    /\ sess[s].pc = "reset"
    /\ Commit(ResetSequenceStmt)
    /\ sess' = [sess EXCEPT ![s].pc = "insert", ![s].i = 1]
    /\ UNCHANGED <<now, admin, last, viewVars, aggVars, qVars, cityVars, ingVars,
                   goldPc, goldLog, goldRuns, serial, done, conns>>

\* one turn of the loop: exec_sql(INSERT ...) of row i of all_data; after the
\* last row, st.rerun()
PassInsert(s) ==
    /\ sess[s].pc = "insert"
    /\ LET row == sess[s].all_data[sess[s].i]
       IN  Commit(InsertStmt(row.created_at, row.user_name, row.page, row.rating,
                             row.comment))
    /\ IF sess[s].i < Len(sess[s].all_data)
       THEN /\ sess' = [sess EXCEPT ![s].i = @ + 1]
            /\ done' = done
       ELSE /\ sess' = [sess EXCEPT ![s] = Ready]
            /\ done' = EndPass(s, "completed", feedback')
    /\ UNCHANGED <<now, admin, last, viewVars, aggVars, qVars, cityVars, ingVars,
                   goldPc, goldLog, goldRuns, serial, conns>>

\* the else branch: exec_sql("DELETE FROM sqlite_sequence ...") alone, then st.rerun()
PassResetOnly(s) ==
    /\ sess[s].pc = "reset_only"
    /\ Commit(ResetSequenceStmt)
    /\ sess' = [sess EXCEPT ![s] = Ready]
    /\ done' = EndPass(s, "completed", feedback')
    /\ UNCHANGED <<now, admin, last, viewVars, aggVars, qVars, cityVars, ingVars,
                   goldPc, goldLog, goldRuns, serial, conns>>

\* the handler stops between two of its statements: a statement raises (the file
\* is locked, the disk is full) or the dashboard process ends
Interrupt(s) ==
    /\ InPass(s)
    /\ sess' = [sess EXCEPT ![s] = Ready]
    /\ done' = EndPass(s, "interrupted", feedback)
    /\ UNCHANGED <<fbVars, viewVars, aggVars, qVars, cityVars, ingVars, goldVars,
                   serial, conns>>

\* ensure_feedback_table on a gold database the aggregation stage has built; every
\* session starts logged out
InitDash ==
    /\ feedback = {}
    /\ fb_seq = 0
    /\ now = 0
    /\ admin = [s \in Sessions |-> FALSE]
    /\ last = NoOp
    /\ goldDb \in DashGold
    /\ goldPc = "idle" /\ goldLog = <<>> /\ goldRuns = <<>>
    /\ sess = [s \in Sessions |-> Ready]
    /\ serial = 0
    /\ done = <<>>
    /\ conns = {}
    /\ ViewsIdle /\ AggIdle /\ QueriesIdle /\ CityIdle /\ IngestIdle

NextDash ==
    \/ \E s \in Sessions, t \in DashPages : DashView(s, t)
    \/ \E s \in Sessions, u \in Names, p \in Pages : DashSubmit(s, u, p, 5)
    \/ \E s \in Sessions, pw \in Passwords : DashLogin(s, pw)
    \/ \E s \in Sessions, d \in 1..MaxSubmits : DeleteClick(s, d)
    \/ \E s \in Sessions : PassSelect(s)
    \/ \E s \in Sessions : PassClear(s)
    \/ \E s \in Sessions : PassReset(s)
    \/ \E s \in Sessions : PassInsert(s)
    \/ \E s \in Sessions : PassResetOnly(s)
    \/ \E s \in Sessions : Interrupt(s)

SpecDash == InitDash /\ [][NextDash]_vars

-----------------------------------------------------------------------------
(* Claims about the dashboard's statements, checked under SpecDash *)

\* C23: no dashboard view other than the feedback view writes to the gold
\* database, and feedback submissions and deletions change only the feedback
\* table and its id counter: every q*, sample_* and gold_inventory table is left
\* unchanged by any sequence of dashboard interactions.
TheoremC23 ==
    [][ /\ goldDb' = goldDb
        /\ lastView' # lastView => (feedback' = feedback /\ fb_seq' = fb_seq) ]_vars

\* a delete pass has completed after two submissions, a view has been shown, and
\* the gold database holds a result table with rows, a sample and the inventory
WitnessC23 ==
    /\ \E i \in DOMAIN done : done[i].outcome = "completed"
    /\ serial >= 2
    /\ lastView.page = "q1_pareto_analysis"
    /\ {"q1_pareto_analysis", "sample_items", "gold_inventory"} \subseteq DOMAIN goldDb
    /\ goldDb["q1_pareto_analysis"].rows # <<>>

\* C26: if the delete-and-renumber pass is interrupted at any point after the
\* selected row has been deleted, every surviving feedback row is still present
\* in the database.
ClaimC26 ==
    \A i \in DOMAIN done :
        done[i].outcome = "interrupted" =>
            done[i].survivors \subseteq {Fields(r) : r \in done[i].rows}

\* C27: a feedback row submitted by one session while another session's pass is
\* between its read of the surviving rows and its re-insertions is present,
\* exactly once, after both operations complete, and the ids are 1..n.
ClaimC27 ==
    \A i \in DOMAIN done :
        (done[i].outcome = "completed" /\ done[i].during # {}) =>
            /\ \A c \in done[i].during :
                  Cardinality({r \in done[i].rows : r.comment = c}) = 1
            /\ Ids(done[i].rows) = 1..Cardinality(done[i].rows)

-----------------------------------------------------------------------------
(* The connection of a database access: get_conn, read_df and exec_sql.     *)
(* An access opens its connection, runs its statement inside try, and       *)
(* closes the connection in the finally clause.                             *)

MaxAccesses == 3      \* database accesses of a run of the dashboard

AccessKinds == {"read_df", "exec_sql"}

Resting == [pc |-> "ready", kind |-> "none", conn |-> 0, raised |-> FALSE]

\* sqlite3.connect(SQLITE_DB_PATH): connection c is open
connect(cs, c) == cs \cup {c}

\* variant: conn.close() at the end of the try block, without finally
close_after_try(cs, c, raised) == IF raised THEN cs ELSE cs \ {c}

\* finally: conn.close(), reached when the statement returns and when it raises
finally_close(cs, c, raised) == cs \ {c}

\* conn = get_conn(): _assert_db_exists() stops the script when the database file
\* is missing, before any connection is opened; otherwise the connection is opened
AccessGetConn(s, kind, file_exists) ==
    /\ sess[s].pc = "ready"
    /\ serial < MaxAccesses
    /\ serial' = serial + 1
    /\ IF file_exists
       THEN /\ conns' = connect(conns, serial + 1)
            /\ sess' = [sess EXCEPT ![s] = [pc |-> "try", kind |-> kind,
                                            conn |-> serial + 1, raised |-> FALSE]]
            /\ done' = done
       ELSE /\ done' = Append(done, [s |-> s, kind |-> kind, outcome |-> "stopped"])
            /\ UNCHANGED <<conns, sess>>
    /\ UNCHANGED <<fbVars, viewVars, aggVars, qVars, cityVars, ingVars, goldVars>>

\* the try block: pd.read_sql_query, or cur.execute and conn.commit, returns or
\* raises (the table is missing, the file is locked)
AccessTry(s, raised) ==
    /\ sess[s].pc = "try"
    /\ sess' = [sess EXCEPT ![s].pc = "finally", ![s].raised = raised]
    /\ UNCHANGED <<fbVars, viewVars, aggVars, qVars, cityVars, ingVars, goldVars,
                   serial, done, conns>>

\* the finally clause, then control returns to the caller
AccessFinally(s) ==
    /\ sess[s].pc = "finally"
    /\ conns' = finally_close(conns, sess[s].conn, sess[s].raised)
    /\ done' = Append(done, [s |-> s, kind |-> sess[s].kind,
                             outcome |-> IF sess[s].raised THEN "raised" ELSE "returned"])
    /\ sess' = [sess EXCEPT ![s] = Resting]
    /\ UNCHANGED <<fbVars, viewVars, aggVars, qVars, cityVars, ingVars, goldVars, serial>>

InitConn ==
    /\ sess = [s \in Sessions |-> Resting]
    /\ serial = 0
    /\ done = <<>>
    /\ conns = {}
    /\ FeedbackIdle /\ ViewsIdle /\ AggIdle /\ QueriesIdle /\ CityIdle /\ IngestIdle /\ GoldIdle

NextConn ==
    \/ \E s \in Sessions, k \in AccessKinds, e \in BOOLEAN : AccessGetConn(s, k, e)
    \/ \E s \in Sessions, r \in BOOLEAN : AccessTry(s, r)
    \/ \E s \in Sessions : AccessFinally(s)

SpecConn == InitConn /\ [][NextConn]_vars

\* the connections of the accesses that have not yet returned
ConnsInUse == {sess[s].conn : s \in {x \in Sessions : sess[x].pc # "ready"}}

\* C25: every dashboard database access acquires its own connection and releases
\* it before returning control to the caller, on the success path and when the
\* statement raises: after any sequence of reads and writes, no connection opened
\* by them remains open.
TheoremC25 ==
    /\ conns = ConnsInUse
    /\ \A s1, s2 \in Sessions :
          (s1 # s2 /\ sess[s1].pc # "ready" /\ sess[s2].pc # "ready") =>
              sess[s1].conn # sess[s2].conn
    /\ (\A s \in Sessions : sess[s].pc = "ready") => conns = {}

\* a read has raised and a write has returned, both sessions are back with
\* their callers
WitnessC25 ==
    /\ \A s \in Sessions : sess[s].pc = "ready"
    /\ \E i \in DOMAIN done : done[i].kind = "read_df" /\ done[i].outcome = "raised"
    /\ \E i \in DOMAIN done : done[i].kind = "exec_sql" /\ done[i].outcome = "returned"

-----------------------------------------------------------------------------
(* The rows an admin deletion keeps, checked under SpecFeedback *)

\* the rows of R that carry the values v
WithFields(R, v) == {r \in R : Fields(r) = v}

\* the rows present before the deletion other than the selected one
KeptRows == {r \in last.pre : r.id # last.id}

\* C28: an admin deletion removes exactly the row whose id was selected: every
\* other feedback row survives the renumbering exactly once, with its created_at,
\* user_name, page, rating and comment values unchanged (only its id may change).
TheoremC28 ==
    last.op = "Delete" =>
        /\ Cardinality(feedback) = Cardinality(KeptRows)
        /\ \A v \in {Fields(r) : r \in last.pre \cup feedback} :
              Cardinality(WithFields(feedback, v)) = Cardinality(WithFields(KeptRows, v))
        /\ \E r \in last.pre : r.id = last.id

\* the second of three rows is deleted, the third row takes its id, and the two
\* survivors differ in their values
WitnessC28 ==
    /\ last.op = "Delete"
    /\ last.id = 2
    /\ Cardinality(last.pre) = 3
    /\ \E o \in last.pre, r \in feedback : o.id = 3 /\ r.id = 2 /\ Fields(o) = Fields(r)
    /\ \E r1, r2 \in feedback : Fields(r1) # Fields(r2)

-----------------------------------------------------------------------------
(* The eight queries of the main block called in any order *)

\* the try block of the main block begins
order_start ==
    /\ goldPc = "idle"
    /\ goldRuns = <<>>
    /\ goldPc' = "queries"
    /\ UNCHANGED <<goldDb, goldLog, goldRuns, qVars, cityVars, notGoldVars>>

\* the call of query i, at any place among the eight calls: the table is replaced;
\* process_question_1 then raises ZeroDivisionError when its table is empty and
\* the except clause ends the block
order_question(i) ==
    /\ goldPc = "queries"
    /\ QuestionPc(i) \notin qDone
    /\ LET t == CHOOSE o \in QuestionTables(i) : TRUE
       IN  /\ goldDb' = CreateOrReplace(goldDb, QTables[i], QuestionCols(i), t)
           /\ IF i = 1 /\ t = <<>>
              THEN /\ goldPc' = "finally"
                   /\ goldLog' = Append(goldLog, "Error during execution")
              ELSE /\ goldPc' = (IF Cardinality(qDone) = 7 THEN "finally" ELSE "queries")
                   /\ goldLog' = goldLog
    /\ qDone' = qDone \cup {QuestionPc(i)}
    /\ UNCHANGED <<goldRuns, train, q1, q2, cityVars, notGoldVars>>

\* the finally clause; the state of the gold database is recorded
order_finally ==
    /\ goldPc = "finally"
    /\ goldRuns' = Append(goldRuns, [db |-> goldDb, log |-> goldLog])
    /\ goldPc' = "idle"
    /\ UNCHANGED <<goldDb, goldLog, qVars, cityVars, notGoldVars>>

InitOrder ==
    /\ train \in FactTables(KeysRerun, SalesRerun, MaxFactsRerun)
    /\ transactions = TransactionsRerun
    /\ holidays_events = HolidaysRerun
    /\ q1 = <<>> /\ q2 = <<>> /\ qDone = {}
    /\ q3 = <<>> /\ q4 = <<>> /\ q5 = <<>> /\ q6 = <<>>
    /\ goldDb \in GoldBefore
    /\ goldPc = "idle"
    /\ goldLog = <<>>
    /\ goldRuns = <<>>
    /\ FeedbackIdle /\ ViewsIdle /\ AggIdle /\ IngestIdle /\ DashIdle

NextOrder ==
    \/ order_start
    \/ \E i \in 1..8 : order_question(i)
    \/ order_finally

SpecOrder == InitOrder /\ [][NextOrder]_vars

\* the queries whose tables the order Q1..Q8 writes: all eight, or the first
\* alone when it raises
WrittenInSequence ==
    IF Q1Rows(train) = {} THEN {QuestionPc(1)} ELSE {QuestionPc(i) : i \in 1..8}

\* C24: executing the eight queries in any order yields the same final contents
\* of all eight gold tables as the sequential order Q1..Q8.
ClaimC24 ==
    Len(goldRuns) = 1 =>
        /\ qDone = WrittenInSequence
        /\ \A i \in 1..8 :
              QuestionPc(i) \in qDone =>
                  RowsOf(goldRuns[1].db, QTables[i]) = Range(CHOOSE o \in QuestionTables(i) : TRUE)

\* C24, for a lake on which no query raises
OrderIndependentWithoutRaise ==
    (Len(goldRuns) = 1 /\ Q1Rows(train) # {}) =>
        /\ qDone = WrittenInSequence
        /\ \A i \in 1..8 :
              RowsOf(goldRuns[1].db, QTables[i]) = Range(CHOOSE o \in QuestionTables(i) : TRUE)

-----------------------------------------------------------------------------
(* The feedback table under a run of the aggregation stage, checked under    *)
(* SpecRerun                                                                 *)

\* C29: re-running the aggregation stage (all queries, raw samples, inventory and
\* the final VACUUM) against a gold database that already contains user feedback
\* leaves the feedback table unchanged: the same rows with the same ids and field
\* values.
TheoremC29 ==
    [][ "feedback" \in DOMAIN goldDb =>
            /\ "feedback" \in DOMAIN goldDb'
            /\ goldDb'["feedback"] = goldDb["feedback"] ]_vars

\* two runs have ended on a gold database that holds a feedback row, and the
\* second has replaced the tables of the first
WitnessC29 ==
    /\ Len(goldRuns) = 2
    /\ "feedback" \in DOMAIN goldDb
    /\ Len(goldDb["feedback"].rows) = 1
    /\ \A i \in 1..2 : {"q8_oil_sales", "sample_train", "gold_inventory"}
                           \subseteq DOMAIN goldRuns[i].db

-----------------------------------------------------------------------------
(* A failed ingestion run after a complete one, checked under SpecIngest *)

\* C30: an ingestion run that aborts because an input file is missing leaves a
\* previously built lake intact: the tables of the earlier successful run are
\* still present and unchanged after the failed run.
ClaimC30 ==
    \A j \in DOMAIN runs :
        (j > 1 /\ runs[j - 1].created = LakeTables /\ MissingFiles(runs[j].csv) # <<>>) =>
            runs[j].ducklake = runs[j - 1].ducklake
====
